---- MODULE Spec2Model ----
(***************************************************************************)
(* A model of the ezlang compiler: the LocalStack symbol table and the     *)
(* recursive-descent parser of src/src/parser.rs, the code generator and   *)
(* build driver of src/src/compiler.rs, the lexer of src/src/lexer.rs, the *)
(* x86-64 machine that runs the assembly the generator emits, and the      *)
(* single-file compiler of src/src/ezlang.rs that main.rs builds.          *)
(***************************************************************************)
EXTENDS Integers, Sequences, FiniteSets, TLC

(***************************************************************************)
(* Bounds of the model.                                                    *)
(***************************************************************************)
\* Registers and stack slots are 64 bits wide in the program; the model
\* keeps the wrap-around at a width TLC's integers can multiply.
WordBits == 8
\* Most Binary nodes of a generated expression tree.
MaxNodes == 3
\* Most declared arguments of a generated function.
MaxArgs == 2
\* Number of distinct literals used as call arguments.
NumLits == 2
\* The stack of the machine, in 16-byte paragraphs.
StackParas == 20
\* The operators of a source expression.
MaxOps == 3
\* The precedence levels an operator can have.
PrecLevels == 3
\* The functions of a source file.
MaxFunctions == 3
\* The var declarations of a function.
MaxVars == 2
\* The statements of a function before its return.
MaxStatements == 2

Modulus == 2 ^ WordBits
StackTop == 16 * StackParas
\* The content of a register or stack slot nothing has written yet.
Undef == 0 - 1

VARIABLES
    expr,       \* the expression handed to write_expression
    locals,     \* the LocalStack of the function being generated
    program,    \* the functions handed to write_program
    code,       \* the emitted instructions
    regs,       \* machine registers
    mem,        \* machine stack memory, address -> quad word
    pc,         \* index in code of the next instruction
    mstatus,    \* "running" | "done" | "exited"
    exit_code,  \* the argument of the exit system call
    trace,      \* the immediates, pushes and calls executed so far
    frames,     \* history: registers and memory at each call that has not returned
    tokens,           \* Parser.tokens: the tokens of the source file
    position,         \* Parser.position
    current_token,    \* Parser.current_token
    lookahead_token,  \* Parser.lookahead_token
    functions,        \* Parser.functions: the functions parsed so far
    pstatus,          \* "idle" | "parsing" | "panicked" | "returned" | "generated"
    message,          \* the message of the panic
    precedence,       \* BinaryOperator -> its precedence
    arg_indices,      \* next_args' args: the indices insert returned, in order
    inserts,          \* the (label, size) pairs passed to LocalStack::insert
    data,             \* Lexer.data: the bytes of the source file
    lexer_position,   \* Lexer.position
    current_char,     \* Lexer.current_char
    reached_eof,      \* Lexer.reached_eof
    file_position,    \* Lexer.file_position
    lstatus,          \* "idle" | "lexing" | "exhausted" | "panicked" | "hung"
    overflow_checks,  \* whether the build panics on arithmetic overflow (debug) or wraps
    driver,           \* save_buffer: "idle" | "saved" | "assembled" | "linked" | "panicked"
    invoked,          \* the subprocesses save_buffer has run, with their outcome
    source_code,      \* ezlang.rs: the bytes of the file Compiler::compile read
    ez_program,       \* ezlang.rs: the Program Parser::parse returned
    assembly,         \* ezlang.rs: the lines of text Compiler::program wrote
    log,              \* ezlang.rs: tokens produced and consumed, Program and text begun
    ez_error,         \* ezlang.rs: the message of the CompileError or of the panic
    estatus           \* ezlang.rs: "idle" | "new" | "assembled" | "failed" | "panicked" | "built"

parser_vars ==
    <<tokens, position, current_token, lookahead_token, functions, pstatus, message, precedence>>

stack_vars == <<arg_indices, inserts>>

lexer_vars ==
    <<data, lexer_position, current_char, reached_eof, file_position, lstatus, overflow_checks>>

driver_vars == <<driver, invoked>>

ez_vars == <<source_code, ez_program, assembly, log, ez_error, estatus>>

vars == <<expr, locals, program, code, regs, mem, pc, mstatus, exit_code, trace, frames,
          tokens, position, current_token, lookahead_token, functions, pstatus, message,
          precedence, stack_vars, lexer_vars, driver_vars, ez_vars>>

\* No LocalStack is being filled.
StackIdle ==
    /\ arg_indices = <<>>
    /\ inserts = <<>>

\* No source file is being read.
LexerIdle ==
    /\ data = <<>>
    /\ lexer_position = 0
    /\ current_char = ""
    /\ reached_eof = FALSE
    /\ file_position = [line |-> 1, column |-> 1]
    /\ lstatus = "idle"
    /\ overflow_checks = FALSE

\* No text has been handed to save_buffer.
DriverIdle ==
    /\ driver = "idle"
    /\ invoked = <<>>

\* The single-file compiler of ezlang.rs is not run.
EzIdle ==
    /\ source_code = <<>>
    /\ ez_program = <<>>
    /\ assembly = <<>>
    /\ log = <<>>
    /\ ez_error = ""
    /\ estatus = "idle"

(***************************************************************************)
(* parser.rs: Local, LocalStack                                            *)
(***************************************************************************)
Local(size, offset, label) == [size |-> size, offset |-> offset, label |-> label]

LocalStack_new == <<>>

\* Option<usize>: the 0-based index of the first local with that label, or -1.
LocalStack_find(ls, label) ==
    IF \E i \in 1..Len(ls) : ls[i].label = label
    THEN (CHOOSE i \in 1..Len(ls) :
            /\ ls[i].label = label
            /\ \A j \in 1..(i - 1) : ls[j].label # label) - 1
    ELSE -1

\* insert with the offset taken from the size of the new local.
LocalStack_insert_table_own_size(ls, label, size) ==
    IF LocalStack_find(ls, label) # -1
    THEN ls
    ELSE LET offset == IF Len(ls) > 0 THEN ls[Len(ls)].offset + size ELSE 0
         IN  Append(ls, Local(size, offset, label))

\* The table after insert(label, size).
LocalStack_insert_table(ls, label, size) ==
    IF LocalStack_find(ls, label) # -1
    THEN ls
    ELSE LET offset == IF Len(ls) > 0
                       THEN ls[Len(ls)].offset + ls[Len(ls)].size
                       ELSE 0
         IN  Append(ls, Local(size, offset, label))

\* insert returning the index of the last local whatever the label.
LocalStack_insert_index_last(ls, label, size) ==
    Len(LocalStack_insert_table(ls, label, size)) - 1

\* The index insert(label, size) returns.
LocalStack_insert_index(ls, label, size) ==
    IF LocalStack_find(ls, label) # -1
    THEN LocalStack_find(ls, label)
    ELSE Len(LocalStack_insert_table(ls, label, size)) - 1

LocalStack_has(ls, index) == index >= 0 /\ index < Len(ls)

LocalStack_get(ls, index) == ls[index + 1]

LocalStack_get_size(ls) ==
    IF Len(ls) > 0 THEN ls[Len(ls)].offset + ls[Len(ls)].size ELSE 0

(***************************************************************************)
(* parser.rs: Expression, Statement, Function                              *)
(***************************************************************************)
NumberLiteral(n) == [kind |-> "NumberLiteral", value |-> n]
LocalRef(index) == [kind |-> "Local", index |-> index]
Binary(operator, left, right) ==
    [kind |-> "Binary", operator |-> operator, left |-> left, right |-> right]
CallExpr(index, args) == [kind |-> "Call", index |-> index, args |-> args]

Assign(index, e) == [kind |-> "Assign", local |-> index, expression |-> e]
Return(e) == [kind |-> "Return", expression |-> e]
CallStmt(e) == [kind |-> "Call", expression |-> e]

Function(name, ls, arguments, statements) ==
    [name |-> name, locals |-> ls, arguments |-> arguments,
     body |-> [statements |-> statements]]

(***************************************************************************)
(* compiler.rs: registers, operand widths, instruction mnemonics           *)
(***************************************************************************)
\* impl Display for Register
RegisterName(reg, size) ==
    LET names == [R1 |-> <<"al", "ax", "eax", "rax">>,
                  R2 |-> <<"cl", "cx", "ecx", "rcx">>,
                  R3 |-> <<"dl", "dx", "edx", "rdx">>,
                  R4 |-> <<"bl", "bx", "ebx", "rbx">>,
                  R5 |-> <<"ah", "sp", "esp", "rsp">>,
                  R6 |-> <<"ch", "bp", "ebp", "rbp">>,
                  R7 |-> <<"dh", "si", "esi", "rsi">>,
                  R8 |-> <<"bh", "di", "edi", "rdi">>]
        col == CASE size = 8 -> 1 [] size = 16 -> 2
                 [] size = 32 -> 3 [] size = 64 -> 4
    IN  names[reg][col]

RAX == RegisterName("R1", 64)
RCX == RegisterName("R2", 64)
RDX == RegisterName("R3", 64)
RSP == RegisterName("R5", 64)
RBP == RegisterName("R6", 64)
RDI == RegisterName("R8", 64)

\* Local::get_word_type with Display for TypeSize
get_word_type(local) ==
    CASE local.size = 1 -> "byte"
      [] local.size = 2 -> "word"
      [] local.size = 4 -> "dword"
      [] local.size = 8 -> "qword"
      [] OTHER -> "PANIC"

\* BinaryOperator::get_instruction; Div is todo!(), a panic.
get_instruction(operator) ==
    CASE operator = "Add" -> "add"
      [] operator = "Sub" -> "sub"
      [] operator = "Mul" -> "imul"
      [] operator = "Div" -> "PANIC"
      [] operator = "BitwiseOr" -> "or"
      [] operator = "BitwiseAnd" -> "and"
      [] operator = "BitwiseXor" -> "xor"

(***************************************************************************)
(* The emitted text, one record per line of assembly.                      *)
(***************************************************************************)
ILabel(name) == [op |-> "label", name |-> name, local |-> FALSE]
IReturnLabel(name) == [op |-> "label", name |-> name, local |-> TRUE]
IMovImm(dst, imm) == [op |-> "mov_imm", dst |-> dst, imm |-> imm]
IMovReg(dst, src) == [op |-> "mov_reg", dst |-> dst, src |-> src]
\* mov dst, <width> [base + disp]
ILoad(dst, width, base, disp) ==
    [op |-> "load", dst |-> dst, width |-> width, base |-> base, disp |-> disp]
\* mov <width> [base + disp], src
IStore(width, base, disp, src) ==
    [op |-> "store", width |-> width, base |-> base, disp |-> disp, src |-> src]
IAlu(ins, dst, src) == [op |-> "alu", ins |-> ins, dst |-> dst, src |-> src]
IPush(src) == [op |-> "push", src |-> src]
IPop(dst) == [op |-> "pop", dst |-> dst]
ISubImm(dst, imm) == [op |-> "sub_imm", dst |-> dst, imm |-> imm]
ICall(target) == [op |-> "call", target |-> target]
IJmpReturn(name) == [op |-> "jmp", target |-> name]
IRet == [op |-> "ret"]
ISyscall == [op |-> "syscall"]
\* The generator panicked while producing this line: no text is produced.
IPanic(msg) == [op |-> "panic", msg |-> msg]

Panicked(text) == \E i \in 1..Len(text) : text[i].op = "panic"

RECURSIVE ConcatAll(_)
ConcatAll(seqs) ==
    IF Len(seqs) = 0 THEN <<>> ELSE Head(seqs) \o ConcatAll(Tail(seqs))

(***************************************************************************)
(* compiler.rs: Compiler::write_expression                                 *)
(***************************************************************************)
RECURSIVE write_expression(_, _, _, _, _)

\* The line "<op> register, alt" that ends every Binary branch.
write_operator(operator, register, alt) ==
    IF get_instruction(operator) = "PANIC"
    THEN <<IPanic("Division instruction")>>
    ELSE <<IAlu(get_instruction(operator), register, alt)>>

\* The left side into alt and the right side into the register.
write_binary_left_first_into_alt(b, register, alt, ls, fns) ==
    write_expression(b.left, alt, register, ls, fns)
        \o write_expression(b.right, register, alt, ls, fns)
        \o write_operator(b.operator, register, alt)

\* Branches 1 and 3 of the Binary case: left into register, right into alt.
write_binary_left_first(b, register, alt, ls, fns) ==
    write_expression(b.left, register, alt, ls, fns)
        \o write_expression(b.right, alt, register, ls, fns)
        \o write_operator(b.operator, register, alt)

write_binary_right_first_mutant(b, register, alt, ls, fns) ==
    write_expression(b.left, register, alt, ls, fns)
        \o write_expression(b.right, alt, register, ls, fns)
        \o write_operator(b.operator, register, alt)

\* Branch 2 of the Binary case: the nested right side first, into alt.
write_binary_right_first(b, register, alt, ls, fns) ==
    write_expression(b.right, alt, register, ls, fns)
        \o write_expression(b.left, register, alt, ls, fns)
        \o write_operator(b.operator, register, alt)

write_local(index, register, ls) ==
    IF LocalStack_has(ls, index)
    THEN LET local == LocalStack_get(ls, index)
         IN  IF get_word_type(local) = "PANIC"
             THEN <<IPanic("Unkown size")>>
             ELSE <<ILoad(register, get_word_type(local), RBP,
                          -(local.offset + local.size))>>
    ELSE <<IPanic("Unreachable")>>

\* The loop over the argument expressions of a Call: evaluate, then push.
\* The arguments evaluated and pushed from the last to the first.
write_call_arguments_reversed(args, ls, fns) ==
    ConcatAll([i \in 1..Len(args) |->
        write_expression(args[Len(args) + 1 - i], RCX, RDX, ls, fns) \o <<IPush(RCX)>>])

write_call_arguments(args, ls, fns) ==
    ConcatAll([i \in 1..Len(args) |->
        write_expression(args[i], RCX, RDX, ls, fns) \o <<IPush(RCX)>>])

write_call(index, args, register, ls, fns) ==
    IF ~(index >= 0 /\ index < Len(fns))
    THEN <<IPanic("No function found")>>
    ELSE LET function == fns[index + 1]
         IN  IF Len(function.arguments) # Len(args)
             THEN <<IPanic("Argument mismath")>>
             ELSE write_call_arguments(args, ls, fns)
                    \o <<ICall(function.name), IMovReg(register, RAX)>>

write_expression(expression, register, alt, ls, fns) ==
    CASE expression.kind = "Binary" ->
            IF expression.left.kind = "Binary"
            THEN write_binary_left_first(expression, register, alt, ls, fns)
            ELSE IF expression.right.kind = "Binary"
            THEN write_binary_right_first(expression, register, alt, ls, fns)
            ELSE write_binary_left_first(expression, register, alt, ls, fns)
      [] expression.kind = "NumberLiteral" ->
            <<IMovImm(register, expression.value)>>
      [] expression.kind = "Local" ->
            write_local(expression.index, register, ls)
      [] expression.kind = "Call" ->
            write_call(expression.index, expression.args, register, ls, fns)

(***************************************************************************)
(* compiler.rs: write_body, write_function, write_program                  *)
(***************************************************************************)
\* write_statement with every return jumping to the return label of main.
write_statement_return_to_main(name, statement, ls, fns) ==
    CASE statement.kind = "Assign" ->
            IF ~LocalStack_has(ls, statement.local)
            THEN <<IPanic("Unreachable")>>
            ELSE LET local == LocalStack_get(ls, statement.local)
                 IN  write_expression(statement.expression, RCX, RDX, ls, fns)
                        \o <<IStore(get_word_type(local), RBP,
                                    -(local.offset + local.size), RCX)>>
      [] statement.kind = "Return" ->
            write_expression(statement.expression, RCX, RDX, ls, fns)
                \o <<IMovReg(RAX, RCX), IJmpReturn("main")>>
      [] statement.kind = "Call" ->
            write_expression(statement.expression, RCX, RDX, ls, fns)

write_statement(name, statement, ls, fns) ==
    CASE statement.kind = "Assign" ->
            IF ~LocalStack_has(ls, statement.local)
            THEN <<IPanic("Unreachable")>>
            ELSE LET local == LocalStack_get(ls, statement.local)
                 IN  write_expression(statement.expression, RCX, RDX, ls, fns)
                        \o <<IStore(get_word_type(local), RBP,
                                    -(local.offset + local.size), RCX)>>
      [] statement.kind = "Return" ->
            write_expression(statement.expression, RCX, RDX, ls, fns)
                \o <<IMovReg(RAX, RCX), IJmpReturn(name)>>
      [] statement.kind = "Call" ->
            write_expression(statement.expression, RCX, RDX, ls, fns)

write_body(name, body, ls, fns) ==
    ConcatAll([i \in 1..Len(body.statements) |->
        write_statement(name, body.statements[i], ls, fns)])

\* The footprint plus 8, not rounded.
stack_size_unrounded(ls) == LocalStack_get_size(ls) + 8

\* let mut stack_size = locals.get_size() + 8; stack_size += stack_size % 16;
stack_size(ls) ==
    LET size == LocalStack_get_size(ls) + 8
    IN  size + (size % 16)

\* The copy of an argument stored at the upper end of its slot.
write_argument_at_offset(function, index) ==
    IF ~LocalStack_has(function.locals, index)
    THEN <<IPanic("Unreachable")>>
    ELSE LET argument == LocalStack_get(function.locals, index)
         IN  <<ILoad(RAX, get_word_type(argument), RBP, 16 + argument.offset),
               IStore(get_word_type(argument), RBP, -argument.offset, RAX)>>

\* The two lines that copy one declared argument from the caller's stack
\* slot into the argument's own local.
write_argument(function, index) ==
    IF ~LocalStack_has(function.locals, index)
    THEN <<IPanic("Unreachable")>>
    ELSE LET argument == LocalStack_get(function.locals, index)
         IN  <<ILoad(RAX, get_word_type(argument), RBP, 16 + argument.offset),
               IStore(get_word_type(argument), RBP,
                      -(argument.offset + argument.size), RAX)>>

write_prologue(function) ==
    <<ILabel(function.name),
      IPush(RBP),
      IMovReg(RBP, RSP),
      ISubImm(RSP, stack_size(function.locals))>>
        \o ConcatAll([i \in 1..Len(function.arguments) |->
                write_argument(function, function.arguments[i])])

\* write_function with an epilogue that does not move rbp to rsp
write_function_rsp_kept(function, fns) ==
    write_prologue(function)
        \o write_body(function.name, function.body, function.locals, fns)
        \o <<IReturnLabel(function.name), IPop(RBP), IRet>>

write_function(function, fns) ==
    write_prologue(function)
        \o write_body(function.name, function.body, function.locals, fns)
        \o <<IReturnLabel(function.name), IMovReg(RSP, RBP), IPop(RBP), IRet>>

\* The number of the exit system call, "mov rax, 0x3c".
SysExit == 60

write_start ==
    <<ILabel("_start"), ICall("main"), IMovReg(RDI, RAX), IMovImm(RAX, SysExit), ISyscall>>

write_program(fns) ==
    write_start
        \o ConcatAll([i \in 1..Len(fns) |-> write_function(fns[i], fns)])

(***************************************************************************)
(* The x86-64 instructions the generator emits, as the machine runs them.  *)
(***************************************************************************)
RECURSIVE BitOp(_, _, _, _)
\* Bitwise and/or/xor of two naturals below 2^n.
BitOp(ins, x, y, n) ==
    IF n = 0 THEN 0
    ELSE LET a == x % 2
             b == y % 2
             bit == CASE ins = "and" -> IF a = 1 /\ b = 1 THEN 1 ELSE 0
                      [] ins = "or" -> IF a = 1 \/ b = 1 THEN 1 ELSE 0
                      [] ins = "xor" -> IF a # b THEN 1 ELSE 0
         IN  bit + 2 * BitOp(ins, x \div 2, y \div 2, n - 1)

\* dst after "<ins> dst, src", wrapping at the register width.
AluResult(ins, x, y) ==
    IF x = Undef \/ y = Undef THEN Undef
    ELSE CASE ins = "add" -> (x + y) % Modulus
           [] ins = "sub" -> (x + Modulus - y) % Modulus
           [] ins = "imul" -> (x * y) % Modulus
           [] OTHER -> BitOp(ins, x, y, WordBits)

Addrs == {StackTop - 8 * k : k \in 1..(2 * StackParas)}

\* What the run records of an instruction: immediates, pushes and calls.
Event(i) ==
    CASE i.op = "mov_imm" -> <<<<"mov_imm", i.imm>>>>
      [] i.op = "push" -> <<<<"push", i.src>>>>
      [] i.op = "call" -> <<<<"call", i.target>>>>
      [] OTHER -> <<>>

\* The machine after a data-movement or arithmetic instruction.
ExecData(i, r, m) ==
    CASE i.op = "mov_imm" -> [regs |-> [r EXCEPT ![i.dst] = i.imm % Modulus], mem |-> m]
      [] i.op = "mov_reg" -> [regs |-> [r EXCEPT ![i.dst] = r[i.src]], mem |-> m]
      [] i.op = "load" -> [regs |-> [r EXCEPT ![i.dst] = m[r[i.base] + i.disp]], mem |-> m]
      [] i.op = "store" -> [regs |-> r, mem |-> [m EXCEPT ![r[i.base] + i.disp] = r[i.src]]]
      [] i.op = "alu" -> [regs |-> [r EXCEPT ![i.dst] = AluResult(i.ins, r[i.dst], r[i.src])],
                          mem |-> m]

DataOps == {"mov_imm", "mov_reg", "load", "store", "alu"}

StepData ==
    /\ mstatus = "running"
    /\ pc <= Len(code)
    /\ code[pc].op \in DataOps
    /\ LET next == ExecData(code[pc], regs, mem)
       IN  /\ regs' = next.regs
           /\ mem' = next.mem
    /\ pc' = pc + 1
    /\ trace' = trace \o Event(code[pc])
    /\ frames' = frames
    /\ UNCHANGED <<parser_vars, stack_vars, lexer_vars, driver_vars, ez_vars>>
    /\ UNCHANGED <<expr, locals, program, code, mstatus, exit_code>>

\* The index in the text of a label: that of a function, or the return
\* label of a function.
LabelIndex(text, name, local) ==
    CHOOSE k \in 1..Len(text) :
        /\ text[k].op = "label" /\ text[k].name = name /\ text[k].local = local
        /\ \A j \in 1..(k - 1) :
             ~(text[j].op = "label" /\ text[j].name = name /\ text[j].local = local)

StackOps == {"push", "pop", "sub_imm"}

StepStack ==
    /\ mstatus = "running"
    /\ pc <= Len(code)
    /\ code[pc].op \in StackOps
    /\ LET i == code[pc]
       IN  CASE i.op = "push" ->
                   /\ regs' = [regs EXCEPT ![RSP] = regs[RSP] - 8]
                   /\ mem' = [mem EXCEPT ![regs[RSP] - 8] = regs[i.src]]
             [] i.op = "pop" ->
                   /\ regs' = [regs EXCEPT ![i.dst] = mem[regs[RSP]],
                                           ![RSP] = IF i.dst = RSP THEN mem[regs[RSP]]
                                                    ELSE regs[RSP] + 8]
                   /\ mem' = mem
             [] i.op = "sub_imm" ->
                   /\ regs' = [regs EXCEPT ![i.dst] = regs[i.dst] - i.imm]
                   /\ mem' = mem
    /\ pc' = pc + 1
    /\ trace' = trace \o Event(code[pc])
    /\ frames' = frames
    /\ UNCHANGED <<parser_vars, stack_vars, lexer_vars, driver_vars, ez_vars>>
    /\ UNCHANGED <<expr, locals, program, code, mstatus, exit_code>>

ControlOps == {"label", "call", "jmp", "ret"}

\* The machine as a call left it: the stack pointer at the entry of the
\* callee, the frame pointer of the caller and the memory, the return address
\* pushed.
Entered(r, m) == [rsp |-> r[RSP] - 8, rbp |-> r[RBP], mem |-> m]

\* The calls that have not returned, the innermost last, after instruction i.
Called(i, entered, r, m) ==
    CASE i.op = "call" -> Append(entered, Entered(r, m))
      [] i.op = "ret" /\ entered # <<>> -> SubSeq(entered, 1, Len(entered) - 1)
      [] OTHER -> entered

StepControl ==
    /\ mstatus = "running"
    /\ pc <= Len(code)
    /\ code[pc].op \in ControlOps
    /\ LET i == code[pc]
       IN  CASE i.op = "label" ->
                   /\ pc' = pc + 1
                   /\ UNCHANGED <<regs, mem>>
             [] i.op = "call" ->
                   /\ regs' = [regs EXCEPT ![RSP] = regs[RSP] - 8]
                   /\ mem' = [mem EXCEPT ![regs[RSP] - 8] = pc + 1]
                   /\ pc' = LabelIndex(code, i.target, FALSE)
             [] i.op = "jmp" ->
                   /\ pc' = LabelIndex(code, i.target, TRUE)
                   /\ UNCHANGED <<regs, mem>>
             [] i.op = "ret" ->
                   /\ pc' = mem[regs[RSP]]
                   /\ regs' = [regs EXCEPT ![RSP] = regs[RSP] + 8]
                   /\ mem' = mem
    /\ trace' = trace \o Event(code[pc])
    /\ frames' = Called(code[pc], frames, regs, mem')
    /\ UNCHANGED <<parser_vars, stack_vars, lexer_vars, driver_vars, ez_vars>>
    /\ UNCHANGED <<expr, locals, program, code, mstatus, exit_code>>

\* The only system call of the text is exit: rax holds its number, rdi its argument.
StepSyscall ==
    /\ mstatus = "running"
    /\ pc <= Len(code)
    /\ code[pc].op = "syscall"
    /\ regs[RAX] = SysExit
    /\ mstatus' = "exited"
    /\ exit_code' = regs[RDI]
    /\ UNCHANGED <<parser_vars, stack_vars, lexer_vars, driver_vars, ez_vars>>
    /\ UNCHANGED <<expr, locals, program, code, regs, mem, pc, trace, frames>>

\* The code of a single expression is a straight line: it ends past its last line.
ExprDone ==
    /\ mstatus = "running"
    /\ pc > Len(code)
    /\ mstatus' = "done"
    /\ UNCHANGED <<parser_vars, stack_vars, lexer_vars, driver_vars, ez_vars>>
    /\ UNCHANGED <<expr, locals, program, code, regs, mem, pc, exit_code, trace, frames>>

(***************************************************************************)
(* Expression trees for write_expression.  The leaves of a tree are        *)
(* numbered in source order; leaf i is the literal i + 2 or the local i,   *)
(* whose slot holds i + 2, so that 2+3*4 is one of the trees and every     *)
(* operand of a tree carries a value of its own.                           *)
(***************************************************************************)
Operators == {"Add", "Sub", "Mul", "BitwiseAnd", "BitwiseOr", "BitwiseXor"}
LeafKinds == {"literal", "local", "mixed"}

LeafValue(i) == i + 2

Leaf(i, leafkind) ==
    IF leafkind = "literal" \/ (leafkind = "mixed" /\ i % 2 = 0)
    THEN NumberLiteral(LeafValue(i))
    ELSE LocalRef(i)

RECURSIVE Shapes(_)
\* The shapes of the trees with exactly n Binary nodes.
Shapes(n) ==
    IF n = 0 THEN {[kind |-> "leaf"]}
    ELSE UNION {
            {[kind |-> "node", left |-> l, right |-> r] :
                l \in Shapes(k), r \in Shapes(n - 1 - k)}
            : k \in 0..(n - 1)}

RECURSIVE Nodes(_)
Nodes(shape) ==
    IF shape.kind = "leaf" THEN 0 ELSE 1 + Nodes(shape.left) + Nodes(shape.right)

RECURSIVE TreeOf(_, _, _, _, _)
\* The tree of a shape whose Binary nodes take the operators ops from the
\* firstop-th on and whose leaves are numbered from firstleaf.
TreeOf(shape, ops, firstop, firstleaf, leafkind) ==
    IF shape.kind = "leaf" THEN Leaf(firstleaf, leafkind)
    ELSE Binary(ops[firstop],
                TreeOf(shape.left, ops, firstop + 1, firstleaf, leafkind),
                TreeOf(shape.right, ops, firstop + 1 + Nodes(shape.left),
                       firstleaf + Nodes(shape.left) + 1, leafkind))

\* The trees with exactly n Binary nodes.
Trees(n, leafkind) ==
    {TreeOf(shape, ops, 1, 0, leafkind) : shape \in Shapes(n), ops \in [1..n -> Operators]}

Names == <<"a", "b", "c", "d", "e", "f", "g", "h", "i", "j">>

\* The LocalStack of a function with n locals, as the parser builds it.
RECURSIVE LocalsOf(_)
LocalsOf(n) ==
    IF n = 0 THEN LocalStack_new
    ELSE LocalStack_insert_table(LocalsOf(n - 1), Names[n], 8)

\* A frame whose locals hold their values, below a frame pointer at StackTop.
FrameMemory(ls) ==
    [a \in Addrs |->
        IF \E i \in 1..Len(ls) : a = StackTop - (ls[i].offset + ls[i].size)
        THEN LeafValue((CHOOSE i \in 1..Len(ls) :
                            a = StackTop - (ls[i].offset + ls[i].size)) - 1)
        ELSE Undef]

RegNames == {RegisterName(r, 64) : r \in {"R1", "R2", "R3", "R4", "R5", "R6", "R7", "R8"}}

\* No token stream: the generator is driven directly.
NoToken == [token_type |-> "None", text |-> "", number |-> 0]

ParserIdle ==
    /\ tokens = <<>>
    /\ position = 0
    /\ current_token = NoToken
    /\ lookahead_token = NoToken
    /\ functions = <<>>
    /\ pstatus = "idle"
    /\ message = ""
    /\ precedence = <<>>

InitExpr ==
    /\ ParserIdle
    /\ StackIdle
    /\ LexerIdle
    /\ DriverIdle
    /\ EzIdle
    /\ \E n \in 0..MaxNodes :
         \E shape \in Shapes(n) :
            \E ops \in [1..n -> Operators] :
                \E leafkind \in LeafKinds : expr = TreeOf(shape, ops, 1, 0, leafkind)
    /\ locals = LocalsOf(MaxNodes + 1)
    /\ program = <<>>
    /\ exit_code = Undef
    /\ trace = <<>>
    /\ frames = <<>>
    /\ code = write_expression(expr, RCX, RDX, locals, <<>>)
    /\ regs = [r \in RegNames |->
                 IF r = RBP THEN StackTop
                 ELSE IF r = RSP THEN StackTop - 16 * ((MaxNodes + 1) \div 2 + 1)
                 ELSE Undef]
    /\ mem = FrameMemory(locals)
    /\ pc = 1
    /\ mstatus = "running"

NextExpr == StepData \/ ExprDone

SpecExpr == InitExpr /\ [][NextExpr]_vars

(***************************************************************************)
(* Programs for write_program: a function f of n arguments that combines   *)
(* them with one operator, and a main that calls it with literals and with *)
(* calls of f as arguments; and programs whose main returns an expression. *)
(***************************************************************************)
RECURSIVE FoldArgs(_, _)
\* ((a op b) op c) ... over the first n locals.
FoldArgs(operator, n) ==
    IF n = 1 THEN LocalRef(0)
    ELSE Binary(operator, FoldArgs(operator, n - 1), LocalRef(n - 1))

Callee(n, operator) ==
    Function("f", LocalsOf(n), [i \in 1..n |-> i - 1], <<Return(FoldArgs(operator, n))>>)

\* f(2, 3, ...): a call whose arguments are the literals of its positions.
InnerCall(n) == CallExpr(0, [i \in 1..n |-> NumberLiteral(LeafValue(i - 1))])

ArgExprs(n) == {NumberLiteral(v + 1) : v \in 1..NumLits} \cup {InnerCall(n)}

MainReturning(e) == Function("main", LocalStack_new, <<>>, <<Return(e)>>)

\* var a = f(..); f(..); return a;
MainAssigning(e) ==
    Function("main", LocalsOf(1), <<>>, <<Assign(0, e), CallStmt(e), Return(LocalRef(0))>>)

\* The programs that call a function of at most m arguments.
CallPrograms(m) ==
    UNION {
        {<<Callee(n, o), MainReturning(CallExpr(0, args))>> : args \in [1..n -> ArgExprs(n)]}
        \cup
        {<<Callee(n, o), MainAssigning(CallExpr(0, args))>> : args \in [1..n -> ArgExprs(n)]}
        : n \in 1..m, o \in Operators}

\* The programs whose main returns a tree of literals of at most n Binary nodes.
PlainPrograms(n) ==
    {<<MainReturning(e)>> :
        e \in UNION {Trees(k, "literal") : k \in 0..n}}

\* f(a) { a = a op 2; }, which falls through the end of its body, and
\* f(a) { return a; return a op 2; }, which has two Return statements.
EndingCallees(operator) ==
    {Function("f", LocalsOf(1), <<0>>,
              <<Assign(0, Binary(operator, LocalRef(0), NumberLiteral(2)))>>),
     Function("f", LocalsOf(1), <<0>>,
              <<Return(LocalRef(0)),
                Return(Binary(operator, LocalRef(0), NumberLiteral(2)))>>)}

\* The programs whose main calls a function that ends in either way.
EndingPrograms ==
    {<<f, main>> :
        f \in UNION {EndingCallees(o) : o \in Operators},
        main \in {MainReturning(CallExpr(0, <<NumberLiteral(3)>>)),
                  MainAssigning(CallExpr(0, <<NumberLiteral(3)>>))}}

InitRun ==
    /\ ParserIdle
    /\ StackIdle
    /\ LexerIdle
    /\ DriverIdle
    /\ EzIdle
    /\ program \in CallPrograms(MaxArgs) \cup PlainPrograms(MaxNodes - 1) \cup EndingPrograms
    /\ code = write_program(program)
    /\ expr = NumberLiteral(0)
    /\ locals = LocalStack_new
    /\ regs = [r \in RegNames |-> IF r = RSP THEN StackTop ELSE Undef]
    /\ mem = [a \in Addrs |-> Undef]
    /\ pc = LabelIndex(code, "_start", FALSE)
    /\ mstatus = "running"
    /\ exit_code = Undef
    /\ trace = <<>>
    /\ frames = <<>>

NextRun == StepData \/ StepStack \/ StepControl \/ StepSyscall

SpecRun == InitRun /\ [][NextRun]_vars

(***************************************************************************)
(* parser.rs: Parser.  A parser function is an operator on the parser's    *)
(* fields p = [position, current_token, lookahead_token, functions, err];  *)
(* err is the message of the panic that stopped it, "" while it runs.      *)
(***************************************************************************)
\* A token: its type and what the type carries, the text of an identifier or
\* of an operator, the number of a literal or of a call.
Token(token_type, text, number) ==
    [token_type |-> token_type, text |-> text, number |-> number]

Self ==
    [position |-> position, current_token |-> current_token,
     lookahead_token |-> lookahead_token, functions |-> functions, err |-> ""]

Ok(p) == p.err = ""

panic(p, text) == IF Ok(p) THEN [p EXCEPT !.err = text] ELSE p

\* self.tokens.get(i)
tokens_get(i) == IF i < Len(tokens) THEN tokens[i + 1] ELSE NoToken

\* The token next_token returns: None at the end of the tokens.
next_token_value(p) ==
    IF p.position + 1 <= Len(tokens) THEN tokens_get(p.position) ELSE NoToken

\* next_token with the lookahead left one token behind.
next_token_lookahead_behind(p) ==
    IF p.position + 1 <= Len(tokens)
    THEN [p EXCEPT !.current_token = tokens_get(p.position),
                   !.lookahead_token = tokens_get(p.position),
                   !.position = p.position + 1]
    ELSE p

next_token(p) ==
    IF p.position + 1 <= Len(tokens)
    THEN [p EXCEPT !.current_token = tokens_get(p.position),
                   !.lookahead_token = tokens_get(p.position + 1),
                   !.position = p.position + 1]
    ELSE p

\* next_at .. next_var: take the next token, which must be of the type.
expect_token(p, token_type, unexpected, end_of_file) ==
    IF ~Ok(p) THEN p
    ELSE IF next_token_value(p) = NoToken THEN panic(p, end_of_file)
    ELSE IF next_token_value(p).token_type = token_type THEN next_token(p)
    ELSE panic(next_token(p), unexpected)

next_at(p) ==
    expect_token(p, "Call", "Expected a call token.",
                 "Expected a call token but reached end of file.")
next_equals(p) ==
    expect_token(p, "Equals", "Expected an equals token.",
                 "Expected an equals token but reached end of file.")
next_semicolon(p) ==
    expect_token(p, "Semicolon", "Expected a semicolon.",
                 "Expected a semicolon but reached end of file.")
next_comma(p) ==
    expect_token(p, "Comma", "Expected comma token.", "No token")
next_colon(p) ==
    expect_token(p, "Colon", "Expected a colon after function name.",
                 "Expected a colon after function name but reached end of file.")
next_r_brace(p) ==
    expect_token(p, "RightBrace", "Expected right brace token.",
                 "Expected right brace token but reached end of file")
next_l_brace(p) ==
    expect_token(p, "LeftBrace", "Expected left brace token.",
                 "Expected left brace token but reached end of file.")
next_r_par(p) ==
    expect_token(p, "RightPar", "Expected right parentheses token.",
                 "Expected right parentheses token but reached end of file")
next_l_par(p) ==
    expect_token(p, "LeftPar", "Expected left parentheses token.",
                 "Expected left parentheses token but reached end of file.")
next_fn(p) ==
    expect_token(p, "Function", "Expected function declaration (fn).",
                 "Expected function declaration (fn) token but reached end of file.")
next_var(p) ==
    expect_token(p, "Var", "Expected var token.",
                 "Expected var token but reached end of file.")

\* operator.get_precedence()
get_precedence(operator) == precedence[operator]

\* An incoming operator pops the operator on top of the stack.
ShouldPop_never(top_precedence, current_precedence) == FALSE

ShouldPop_equal(top_precedence, current_precedence) ==
    top_precedence >= current_precedence

\* if top_precedence > current_precedence
ShouldPop(top_precedence, current_precedence) ==
    top_precedence > current_precedence

Pop(stack) == SubSeq(stack, 1, Len(stack) - 1)

RECURSIVE pop_operators(_, _, _)
\* while let Some(token) = stack.last(): the operators an incoming operator
\* moves from the stack to the queue.
pop_operators(stack, queue, current_precedence) ==
    IF stack = <<>> THEN [stack |-> stack, queue |-> queue, err |-> ""]
    ELSE LET token == stack[Len(stack)]
         IN  CASE token.token_type = "BinaryOperation" ->
                    IF ShouldPop(get_precedence(token.text), current_precedence)
                    THEN pop_operators(Pop(stack), Append(queue, token), current_precedence)
                    ELSE [stack |-> stack, queue |-> queue, err |-> ""]
               [] token.token_type = "LeftPar" ->
                    [stack |-> stack, queue |-> queue, err |-> ""]
               [] OTHER -> [stack |-> stack, queue |-> queue, err |-> "Unreachable"]

RECURSIVE pop_to_left_par(_, _)
\* while let Some(token) = stack.pop(): a right parenthesis moves the
\* operators above the nearest left parenthesis to the queue.
pop_to_left_par(stack, queue) ==
    IF stack = <<>>
    THEN [stack |-> stack, queue |-> queue, reached_left_par |-> FALSE, err |-> ""]
    ELSE LET token == stack[Len(stack)]
         IN  CASE token.token_type = "LeftPar" ->
                    [stack |-> Pop(stack), queue |-> queue, reached_left_par |-> TRUE,
                     err |-> ""]
               [] token.token_type = "BinaryOperation" ->
                    pop_to_left_par(Pop(stack), Append(queue, token))
               [] OTHER ->
                    [stack |-> Pop(stack), queue |-> queue, reached_left_par |-> FALSE,
                     err |-> "Unreachable"]

RECURSIVE drain_stack(_, _)
\* if end: while let Some(token) = stack.pop()
drain_stack(stack, queue) ==
    IF stack = <<>> THEN [queue |-> queue, err |-> ""]
    ELSE IF stack[Len(stack)].token_type \in {"LeftPar", "RightPar"}
    THEN [queue |-> queue, err |-> "Unmatched parentheses."]
    ELSE drain_stack(Pop(stack), Append(queue, stack[Len(stack)]))

RECURSIVE build_expressions(_, _, _, _, _)
\* for token in queue.iter(): the expressions left by the queue from its
\* k-th token on.
build_expressions(queue, k, expressions, calls, ls) ==
    IF k > Len(queue) THEN [expressions |-> expressions, err |-> ""]
    ELSE LET token == queue[k]
             n == Len(expressions)
         IN  CASE token.token_type = "Call" ->
                    IF token.number < Len(calls)
                    THEN build_expressions(queue, k + 1,
                            Append(expressions, calls[token.number + 1]), calls, ls)
                    ELSE [expressions |-> expressions, err |-> "Unreachable"]
               [] token.token_type = "NumberLiteral" ->
                    build_expressions(queue, k + 1,
                        Append(expressions, NumberLiteral(token.number)), calls, ls)
               [] token.token_type = "Identifier" ->
                    IF LocalStack_find(ls, token.text) >= 0
                    THEN build_expressions(queue, k + 1,
                            Append(expressions, LocalRef(LocalStack_find(ls, token.text))),
                            calls, ls)
                    ELSE [expressions |-> expressions, err |-> "Undeclared local."]
               [] token.token_type = "BinaryOperation" ->
                    IF n >= 2
                    THEN build_expressions(queue, k + 1,
                            Append(SubSeq(expressions, 1, n - 2),
                                   Binary(token.text, expressions[n - 1], expressions[n])),
                            calls, ls)
                    ELSE [expressions |-> expressions, err |-> "Missing operator."]
               [] OTHER -> build_expressions(queue, k + 1, expressions, calls, ls)

ExpressionResult(p, v) == [p |-> p, v |-> v]

\* A parser function stopped by a panic returns no expression.
NoExpression(p) == [p |-> p, v |-> NumberLiteral(0)]

\* assert!(expressions.len() == 1); return expressions.last()
finish_built(p, built) ==
    IF built.err # "" THEN NoExpression(panic(p, built.err))
    ELSE IF Len(built.expressions) = 0
    THEN NoExpression(panic(p, "Expected a expression."))
    ELSE IF Len(built.expressions) # 1
    THEN NoExpression(panic(p, "assertion failed: expressions.len() == 1"))
    ELSE ExpressionResult(p, built.expressions[Len(built.expressions)])

finish_drained(p, drained, calls, ls) ==
    IF drained.err # "" THEN NoExpression(panic(p, drained.err))
    ELSE finish_built(p, build_expressions(drained.queue, 1, <<>>, calls, ls))

\* The part of next_expression after its loop.
finish_expression(s, ls) ==
    IF ~Ok(s.p) THEN NoExpression(s.p)
    ELSE IF ~s.end
    THEN NoExpression(panic(s.p, "Expected expression but found end of file."))
    ELSE finish_drained(s.p, drain_stack(s.stack, s.queue), s.calls, ls)

RECURSIVE scan_expression(_, _, _)
RECURSIVE next_call(_, _)

\* calls.push(call); queue.push(Token { token_type: TokenType::Call(calls.len() - 1), .. })
scan_call(s, call) ==
    [s EXCEPT !.p = call.p,
              !.calls = Append(s.calls, call.v),
              !.queue = Append(s.queue, Token("Call", "", Len(s.calls)))]

\* let current_precedence = ...; while let Some(token) = stack.last() { .. }
\* stack.push(token);
scan_operation(s, token, popped) ==
    IF popped.err # "" THEN [s EXCEPT !.p = panic(s.p, popped.err)]
    ELSE [s EXCEPT !.stack = Append(popped.stack, token), !.queue = popped.queue]

\* TokenType::RightPar, the stack not empty or the expression not an argument.
scan_right_par(s, popped, call_arg) ==
    IF popped.err # "" THEN [s EXCEPT !.p = panic(s.p, popped.err)]
    ELSE IF popped.reached_left_par
    THEN [s EXCEPT !.stack = popped.stack, !.queue = popped.queue]
    ELSE IF call_arg
    THEN [s EXCEPT !.stack = popped.stack, !.queue = popped.queue, !.end = TRUE]
    ELSE [s EXCEPT !.stack = popped.stack, !.queue = popped.queue,
                   !.p = panic(s.p, "Unmatched parenthesis.")]

\* self.next_token() at the end of a turn of the loop, unless it broke out.
scan_step(s) == IF Ok(s.p) /\ ~s.end THEN [s EXCEPT !.p = next_token(s.p)] ELSE s

\* One turn of the loop of next_expression on the token ahead:
\* s = [p, queue, stack, calls, end].
scan_token(s, token, current, ls, call_arg) ==
    CASE token.token_type = "Identifier" ->
            IF current = NoToken THEN [s EXCEPT !.p = panic(s.p, "Unreachable")]
            ELSE IF current.token_type = "Identifier"
            THEN [s EXCEPT !.p = panic(s.p, "Invalid expression.")]
            ELSE [s EXCEPT !.queue = Append(s.queue, token)]
      [] token.token_type = "NumberLiteral" ->
            IF current = NoToken THEN [s EXCEPT !.p = panic(s.p, "Unreachable")]
            ELSE IF current.token_type = "NumberLiteral"
            THEN [s EXCEPT !.p = panic(s.p, "Invalid expression.")]
            ELSE [s EXCEPT !.queue = Append(s.queue, token)]
      [] token.token_type = "BinaryOperation" ->
            IF current = NoToken THEN [s EXCEPT !.p = panic(s.p, "Unreachable")]
            ELSE IF current.token_type = "BinaryOperation"
            THEN [s EXCEPT !.p = panic(s.p, "Invalid expression.")]
            ELSE scan_operation(s, token,
                    pop_operators(s.stack, s.queue, get_precedence(token.text)))
      [] token.token_type = "LeftPar" -> [s EXCEPT !.stack = Append(s.stack, token)]
      [] token.token_type = "RightPar" ->
            IF s.stack = <<>> /\ call_arg THEN [s EXCEPT !.end = TRUE]
            ELSE scan_right_par(s, pop_to_left_par(s.stack, s.queue), call_arg)
      [] token.token_type = "Semicolon" ->
            IF call_arg THEN [s EXCEPT !.p = panic(s.p, "Unexpected token.")]
            ELSE [s EXCEPT !.end = TRUE]
      [] token.token_type = "Comma" ->
            IF ~call_arg THEN [s EXCEPT !.p = panic(s.p, "Unexpected token.")]
            ELSE [s EXCEPT !.end = TRUE]
      [] OTHER -> [s EXCEPT !.p = panic(s.p, "Unexpected token.")]

\* The body of the loop of next_expression: TokenType::Call(_) => { ..; continue; },
\* any other token the match and then self.next_token().
scan_turn(s, ls, call_arg) ==
    IF s.p.lookahead_token.token_type = "Call"
    THEN scan_call(s, next_call(s.p, ls))
    ELSE scan_step(scan_token(s, s.p.lookahead_token, s.p.current_token, ls, call_arg))

\* while let Some(token) = self.lookahead_token.clone() { .. }
scan_expression(s, ls, call_arg) ==
    IF ~Ok(s.p) \/ s.end \/ s.p.lookahead_token = NoToken THEN s
    ELSE scan_expression(scan_turn(s, ls, call_arg), ls, call_arg)

next_expression(p, ls, call_arg) ==
    IF ~Ok(p) THEN NoExpression(p)
    ELSE finish_expression(
            scan_expression([p |-> p, queue |-> <<>>, stack |-> <<>>, calls |-> <<>>,
                             end |-> FALSE], ls, call_arg), ls)

NoArgument(p) == [p |-> p, some |-> FALSE, v |-> NumberLiteral(0)]

SomeArgument(e) == [p |-> e.p, some |-> Ok(e.p), v |-> e.v]

next_call_arg(p, ls) ==
    IF ~Ok(p) THEN NoArgument(p)
    ELSE IF p.lookahead_token = NoToken
    THEN NoArgument(panic(p, "Expected call arguments but reached end of file."))
    ELSE CASE p.lookahead_token.token_type = "RightPar" -> NoArgument(p)
           [] p.lookahead_token.token_type = "Comma" ->
                IF p.current_token # NoToken /\ p.current_token.token_type = "LeftPar"
                THEN NoArgument(panic(p, "Expected a expression."))
                ELSE SomeArgument(next_expression(next_comma(p), ls, TRUE))
           [] OTHER -> SomeArgument(next_expression(p, ls, TRUE))

RECURSIVE next_call_args_loop(_, _, _)
\* expressions.push(arg), and the next turn of the loop
next_call_args_push(arg, ls, expressions) ==
    IF arg.some THEN next_call_args_loop(arg.p, ls, Append(expressions, arg.v))
    ELSE ExpressionResult(arg.p, expressions)

\* while let Some(arg) = self.next_call_arg(locals) { expressions.push(arg); }
next_call_args_loop(p, ls, expressions) ==
    next_call_args_push(next_call_arg(p, ls), ls, expressions)

\* self.next_r_par(); return expressions;
next_call_args_close(args) == ExpressionResult(next_r_par(args.p), args.v)

next_call_args(p, ls) ==
    next_call_args_close(next_call_args_loop(next_l_par(p), ls, <<>>))

\* A lookup that takes the first function for a name it does not find.
functions_position_any(fns, function_name) ==
    IF \E i \in 1..Len(fns) : fns[i].name = function_name
    THEN (CHOOSE i \in 1..Len(fns) : fns[i].name = function_name) - 1
    ELSE 0

\* self.functions.iter().position(|f| f.name == function_name), -1 for None
functions_position(fns, function_name) ==
    IF \E i \in 1..Len(fns) : fns[i].name = function_name
    THEN (CHOOSE i \in 1..Len(fns) :
            /\ fns[i].name = function_name
            /\ \A j \in 1..(i - 1) : fns[j].name # function_name) - 1
    ELSE 0 - 1

\* A comparison that sees only too many arguments.
arguments_differ_up(args, function) == Len(args) > Len(function.arguments)

\* if args.len() != self.functions.get(index).unwrap().arguments.len()
arguments_differ(args, function) == Len(args) # Len(function.arguments)

\* next_call returning the call whatever the number of its arguments
next_call_check_any_arity(args, index) ==
    IF ~Ok(args.p) THEN NoExpression(args.p)
    ELSE ExpressionResult(args.p, CallExpr(index, args.v))

\* The arity check of next_call and its return.
next_call_check(args, index) ==
    IF ~Ok(args.p) THEN NoExpression(args.p)
    ELSE IF index >= Len(args.p.functions)
    THEN NoExpression(panic(args.p, "called Option::unwrap() on a None value"))
    ELSE IF arguments_differ(args.v, args.p.functions[index + 1])
    THEN NoExpression(panic(args.p, "Unmatched number of arguments."))
    ELSE ExpressionResult(args.p, CallExpr(index, args.v))

\* let index = match ...position(..) { Some(index) => index, None => panic!(..) };
\* let args = self.next_call_args(locals);
next_call_resolved(p, index, ls) ==
    IF index < 0 THEN NoExpression(panic(p, "Call to undefined function."))
    ELSE next_call_check(next_call_args(p, ls), index)

\* if let Some(token) = self.next_token(), in next_call
next_call_named(p, token, ls) ==
    IF token.token_type # "Identifier" THEN NoExpression(panic(p, "Expected fuction name."))
    ELSE next_call_resolved(p, functions_position(p.functions, token.text), ls)

next_call_at(p, ls) ==
    IF ~Ok(p) THEN NoExpression(p)
    ELSE IF next_token_value(p) = NoToken
    THEN NoExpression(panic(p, "Expected function name but reached end of file."))
    ELSE next_call_named(next_token(p), next_token_value(p), ls)

next_call(p, ls) == next_call_at(next_at(p), ls)

StatementResult(p, ls, v) == [p |-> p, locals |-> ls, some |-> TRUE, v |-> v]

NoStatement(p, ls) == [p |-> p, locals |-> ls, some |-> FALSE, v |-> Return(NumberLiteral(0))]

\* self.next_semicolon() after the expression of a statement
next_return_close(e, ls) == StatementResult(next_semicolon(e.p), ls, Return(e.v))

next_return(p, ls) == next_return_close(next_expression(p, ls, FALSE), ls)

next_assign_close(e, ls, index) == StatementResult(next_semicolon(e.p), ls, Assign(index, e.v))

\* locals.find(&name), locals.insert(name, 8) and the expression, in
\* next_var_declaration
next_var_declaration_insert(p, name, ls) ==
    IF ~Ok(p) THEN NoStatement(p, ls)
    ELSE IF LocalStack_find(ls, name) >= 0
    THEN NoStatement(panic(p, "Duplicated variable declaration."), ls)
    ELSE next_assign_close(
            next_expression(p, LocalStack_insert_table(ls, name, 8), FALSE),
            LocalStack_insert_table(ls, name, 8),
            LocalStack_insert_index(ls, name, 8))

next_var_declaration_named(p, token, ls) ==
    IF token.token_type # "Identifier" THEN NoStatement(panic(p, "Expected identifier."), ls)
    ELSE next_var_declaration_insert(next_equals(p), token.text, ls)

next_var_declaration_var(p, ls) ==
    IF ~Ok(p) THEN NoStatement(p, ls)
    ELSE IF next_token_value(p) = NoToken
    THEN NoStatement(panic(p, "Expected identifier but reached end of file."), ls)
    ELSE next_var_declaration_named(next_token(p), next_token_value(p), ls)

next_var_declaration(p, ls) == next_var_declaration_var(next_var(p), ls)

\* an assignment to a name that is not declared goes to the first local
next_assign_find_first_local(p, index, ls) ==
    IF ~Ok(p) THEN NoStatement(p, ls)
    ELSE next_assign_close(next_expression(p, ls, FALSE), ls,
                           IF index < 0 THEN 0 ELSE index)

\* match locals.find(&name), in next_assign
next_assign_find(p, index, ls) ==
    IF ~Ok(p) THEN NoStatement(p, ls)
    ELSE IF index < 0 THEN NoStatement(panic(p, "Undeclared variable."), ls)
    ELSE next_assign_close(next_expression(p, ls, FALSE), ls, index)

next_assign_named(p, token, ls) ==
    IF token.token_type # "Identifier" THEN NoStatement(panic(p, "Expected identifier."), ls)
    ELSE next_assign_find(next_equals(p), LocalStack_find(ls, token.text), ls)

next_assign(p, ls) ==
    IF ~Ok(p) THEN NoStatement(p, ls)
    ELSE IF next_token_value(p) = NoToken
    THEN NoStatement(panic(p, "Expected identifier but reached end of file."), ls)
    ELSE next_assign_named(next_token(p), next_token_value(p), ls)

\* self.next_semicolon(); return Some(Statement::Call(call));
next_statement_call(call, ls) == StatementResult(next_semicolon(call.p), ls, CallStmt(call.v))

next_statement(p, ls) ==
    IF ~Ok(p) THEN NoStatement(p, ls)
    ELSE IF p.lookahead_token = NoToken
    THEN NoStatement(panic(p, "Expected statement but found end of file."), ls)
    ELSE CASE p.lookahead_token.token_type = "Return" -> next_return(next_token(p), ls)
           [] p.lookahead_token.token_type = "Var" -> next_var_declaration(p, ls)
           [] p.lookahead_token.token_type = "Identifier" -> next_assign(p, ls)
           [] p.lookahead_token.token_type = "Call" ->
                next_statement_call(next_call(p, ls), ls)
           [] p.lookahead_token.token_type = "RightBrace" -> NoStatement(p, ls)
           [] OTHER -> NoStatement(panic(p, "Unexpected token."), ls)

RECURSIVE next_scope_loop(_, _, _)
\* statements.push(statement), and the next turn of the loop
next_scope_push(statement, statements) ==
    IF statement.some /\ Ok(statement.p)
    THEN next_scope_loop(statement.p, statement.locals, Append(statements, statement.v))
    ELSE [p |-> statement.p, locals |-> statement.locals, v |-> statements]

\* while let Some(statement) = self.next_statement(locals) { statements.push(statement); }
next_scope_loop(p, ls, statements) == next_scope_push(next_statement(p, ls), statements)

\* self.next_r_brace(); return Scope { statements };
next_scope_close(body) ==
    [p |-> next_r_brace(body.p), locals |-> body.locals, v |-> [statements |-> body.v]]

next_scope(p, ls) == next_scope_close(next_scope_loop(next_l_brace(p), ls, <<>>))

NoArg(p) == [p |-> p, some |-> FALSE, label |-> "", size |-> 0]

\* TokenType::Identifier(arg_name), after self.next_token(), in next_arg
next_arg_named(p, arg_name) ==
    IF p.lookahead_token = NoToken
    THEN NoArg(panic(p, "Expected comma or right parentheses but reached end of file."))
    ELSE CASE p.lookahead_token.token_type = "Comma" ->
                [p |-> next_comma(p), some |-> TRUE, label |-> arg_name, size |-> 8]
           [] p.lookahead_token.token_type = "RightPar" ->
                [p |-> p, some |-> TRUE, label |-> arg_name, size |-> 8]
           [] p.lookahead_token.token_type = "Identifier" ->
                NoArg(panic(p, "Unexpected token. Maybe you forgot to put a comma between the two arguments."))
           [] OTHER -> NoArg(panic(p, "Unexpected token."))

next_arg(p) ==
    IF ~Ok(p) THEN NoArg(p)
    ELSE IF p.lookahead_token = NoToken THEN NoArg(panic(p, "Reached end of file"))
    ELSE CASE p.lookahead_token.token_type = "Identifier" ->
                next_arg_named(next_token(p), p.lookahead_token.text)
           [] p.lookahead_token.token_type = "RightPar" ->
                IF p.current_token = NoToken THEN NoArg(panic(p, "Unreachable"))
                ELSE IF p.current_token.token_type \in {"Identifier", "LeftPar"}
                THEN NoArg(p)
                ELSE NoArg(panic(p, "Unexpected token"))
           [] OTHER -> NoArg(panic(p, "Expected right parentheses"))

RECURSIVE next_args_loop(_, _, _)
\* let index = locals.insert(label, size); args.push(index); and the next turn
next_args_push(arg, ls, args) ==
    IF arg.some
    THEN next_args_loop(arg.p, LocalStack_insert_table(ls, arg.label, arg.size),
                        Append(args, LocalStack_insert_index(ls, arg.label, arg.size)))
    ELSE [p |-> arg.p, locals |-> ls, v |-> args]

\* while let Some((label, size)) = self.next_arg() { .. }
next_args_loop(p, ls, args) == next_args_push(next_arg(p), ls, args)

\* self.next_r_par(); return args;
next_args_close(args) == [p |-> next_r_par(args.p), locals |-> args.locals, v |-> args.v]

next_args(p, ls) == next_args_close(next_args_loop(next_l_par(p), ls, <<>>))

NoFunction(p) == [p |-> p, v |-> Function("", LocalStack_new, <<>>, <<>>)]

\* let function = Function { name: function_name, locals, arguments, body };
next_function_body(function_name, arguments, body) ==
    IF ~Ok(body.p) THEN NoFunction(body.p)
    ELSE [p |-> body.p,
          v |-> Function(function_name, body.locals, arguments, body.v.statements)]

\* let body = self.next_scope(&mut locals);
next_function_args(function_name, arguments) ==
    next_function_body(function_name, arguments.v, next_scope(arguments.p, arguments.locals))

next_function_named(p, token) ==
    IF token.token_type # "Identifier" THEN NoFunction(panic(p, "Expected function name"))
    ELSE next_function_args(token.text, next_args(next_colon(p), LocalStack_new))

next_function_fn(p) ==
    IF ~Ok(p) THEN NoFunction(p)
    ELSE IF next_token_value(p) = NoToken
    THEN NoFunction(panic(p, "Expected function name but reached end of file."))
    ELSE next_function_named(next_token(p), next_token_value(p))

next_function(p) == next_function_fn(next_fn(p))

(***************************************************************************)
(* next_program, one turn of its loop at a time, and the generator run on  *)
(* the Program it returns.                                                 *)
(***************************************************************************)
\* self.functions.push(function) that leaves the parser where it was
PushFunction_in_place(parsed) ==
    IF Ok(parsed.p)
    THEN /\ functions' = Append(functions, parsed.v)
         /\ UNCHANGED <<position, current_token, lookahead_token, pstatus, message>>
    ELSE /\ pstatus' = "panicked"
         /\ message' = parsed.p.err
         /\ UNCHANGED <<position, current_token, lookahead_token, functions>>

\* self.functions.push(function), or the panic that stopped next_function
PushFunction(parsed) ==
    IF Ok(parsed.p)
    THEN /\ position' = parsed.p.position
         /\ current_token' = parsed.p.current_token
         /\ lookahead_token' = parsed.p.lookahead_token
         /\ functions' = Append(functions, parsed.v)
         /\ UNCHANGED <<pstatus, message>>
    ELSE /\ pstatus' = "panicked"
         /\ message' = parsed.p.err
         /\ UNCHANGED <<position, current_token, lookahead_token, functions>>

\* TokenType::Function => { let function = self.next_function();
\*                          self.functions.push(function); }
NextFunction ==
    /\ pstatus = "parsing"
    /\ UNCHANGED <<stack_vars, lexer_vars, driver_vars, ez_vars>>
    /\ lookahead_token # NoToken
    /\ lookahead_token.token_type = "Function"
    /\ PushFunction(next_function(Self))
    /\ UNCHANGED <<tokens, precedence, expr, locals, program, code, regs, mem, pc, mstatus,
                   exit_code, trace, frames>>

\* _ => panic!("Unexpected token.")
UnexpectedToken ==
    /\ pstatus = "parsing"
    /\ UNCHANGED <<stack_vars, lexer_vars, driver_vars, ez_vars>>
    /\ lookahead_token # NoToken
    /\ lookahead_token.token_type # "Function"
    /\ pstatus' = "panicked"
    /\ message' = "Unexpected token."
    /\ UNCHANGED <<tokens, position, current_token, lookahead_token, functions, precedence,
                   expr, locals, program, code, regs, mem, pc, mstatus, exit_code, trace, frames>>

\* program.functions = self.functions.clone(); return program;
ReturnProgram ==
    /\ pstatus = "parsing"
    /\ UNCHANGED <<stack_vars, lexer_vars, driver_vars, ez_vars>>
    /\ lookahead_token = NoToken
    /\ program' = functions
    /\ pstatus' = "returned"
    /\ UNCHANGED <<tokens, position, current_token, lookahead_token, functions, message,
                   precedence, expr, locals, code, regs, mem, pc, mstatus, exit_code, trace, frames>>

\* Compiler::write_program on the Program the parser returned.
WriteProgram ==
    /\ pstatus = "returned"
    /\ UNCHANGED <<stack_vars, lexer_vars, driver_vars, ez_vars>>
    /\ code' = write_program(program)
    /\ pstatus' = "generated"
    /\ UNCHANGED <<tokens, position, current_token, lookahead_token, functions, message,
                   precedence, expr, locals, program, regs, mem, pc, mstatus, exit_code,
                   trace, frames>>

\* Command::output(): the subprocess could not be started, or it ran and
\* exited with a failure status, or it ran and succeeded.
Outcomes == {"not started", "failed", "succeeded"}

Ran(command, outcome) == [program |-> command, outcome |-> outcome]

\* save_buffer: File::create(..).expect, file.write(..).expect,
\* Command::new("nasm")...output().expect("failed to assemble"),
\* Command::new("ld")...output().expect("failed to link").  expect panics on
\* the Err of a subprocess that could not be started; the exit status of one
\* that ran is not looked at.
save_buffer(file, nasm, ld) ==
    IF file = "not created"
    THEN [driver |-> "panicked", message |-> "Can not create file", invoked |-> <<>>]
    ELSE IF file = "not written"
    THEN [driver |-> "panicked", message |-> "Can not write to file", invoked |-> <<>>]
    ELSE IF nasm = "not started"
    THEN [driver |-> "panicked", message |-> "failed to assemble",
          invoked |-> <<Ran("nasm", nasm)>>]
    ELSE IF ld = "not started"
    THEN [driver |-> "panicked", message |-> "failed to link",
          invoked |-> <<Ran("nasm", nasm), Ran("ld", ld)>>]
    ELSE [driver |-> "returned", message |-> "",
          invoked |-> <<Ran("nasm", nasm), Ran("ld", ld)>>]

SaveBufferEnds(saved) ==
    /\ driver' = saved.driver
    /\ message' = saved.message
    /\ invoked' = saved.invoked

\* Compiler::compile after write_program: self.save_buffer(), with the file
\* system and the two subprocesses behaving in any way.
SaveBuffer ==
    /\ pstatus = "generated"
    /\ ~Panicked(code)
    /\ driver = "idle"
    /\ \E file \in {"not created", "not written", "written"}, nasm \in Outcomes, ld \in Outcomes :
         SaveBufferEnds(save_buffer(file, nasm, ld))
    /\ UNCHANGED <<tokens, position, current_token, lookahead_token, functions, pstatus,
                   precedence, expr, locals, program, code, regs, mem, pc, mstatus,
                   exit_code, trace, frames>>
    /\ UNCHANGED <<stack_vars, lexer_vars, ez_vars>>

(***************************************************************************)
(* Source files, as the tokens the lexer yields for them.                  *)
(***************************************************************************)
\* The operators of the source files.
ParseOps == {"Add", "Sub", "Mul"}

\* A precedence for each operator, multiplication over addition.
PrecedenceTables == {t \in [ParseOps -> 1..PrecLevels] : t["Mul"] > t["Add"]}

Word(token_type) == Token(token_type, "", 0)

Identifier(name) == Token("Identifier", name, 0)

\* The items with a comma between each two.
Separated(items) ==
    ConcatAll([i \in 1..Len(items) |->
        IF i = 1 THEN items[i] ELSE <<Word("Comma")>> \o items[i]])

\* fn name:(args){body}
FunctionSource(name, args, body) ==
    <<Word("Function"), Identifier(name), Word("Colon"), Word("LeftPar")>>
        \o Separated([i \in 1..Len(args) |-> <<Identifier(args[i])>>])
        \o <<Word("RightPar"), Word("LeftBrace")>> \o body \o <<Word("RightBrace")>>

\* return e;
ReturnSource(e) == <<Word("Return")>> \o e \o <<Word("Semicolon")>>

\* var name = e;
VarSource(name, e) ==
    <<Word("Var"), Identifier(name), Word("Equals")>> \o e \o <<Word("Semicolon")>>

NumberSource(n) == <<Token("NumberLiteral", "", n)>>

\* 1 op 2 op 3 ...: the operands are numbered in source order.
OperationSource(ops) ==
    NumberSource(1)
        \o ConcatAll([i \in 1..Len(ops) |->
                <<Token("BinaryOperation", ops[i], 0)>> \o NumberSource(i + 1)])

\* @name(1, 2, ..., n)
CallSource(name, n) ==
    <<Word("Call"), Identifier(name), Word("LeftPar")>>
        \o Separated([i \in 1..n |-> NumberSource(i)]) \o <<Word("RightPar")>>

SeqsUpTo(S, n) == UNION {[1..k -> S] : k \in 0..n}

FunctionNames == <<"f1", "f2", "f3", "f4", "f5", "f6">>

\* fn main:(){ return 1 op 2 op 3 ...; }
ExprSources ==
    {FunctionSource("main", <<>>, ReturnSource(OperationSource(ops))) :
        ops \in SeqsUpTo(ParseOps, MaxOps)}

\* Functions f1 .. fn of which one, of some arity, is called by one of them,
\* possibly itself or an earlier one, with some number of arguments.
CallSources ==
    UNION {
        {ConcatAll([i \in 1..nf |->
            FunctionSource(FunctionNames[i],
                IF i = callee THEN [k \in 1..arity |-> Names[k]] ELSE <<>>,
                ReturnSource(IF i = caller THEN CallSource(FunctionNames[callee], n)
                             ELSE NumberSource(0)))]) :
            caller \in 1..nf, callee \in 1..nf, arity \in 0..MaxArgs, n \in 0..(MaxArgs + 1)}
        : nf \in 1..MaxFunctions}

\* fn main:(args){ var c = 0; var d = 0; ... return 0; } with arguments named
\* a or b, possibly twice the same.
LocalSources ==
    {FunctionSource("main", args,
        ConcatAll([i \in 1..nv |-> VarSource(Names[2 + i], NumberSource(0))])
            \o ReturnSource(NumberSource(0))) :
        args \in SeqsUpTo({"a", "b"}, MaxArgs), nv \in 0..MaxVars}

\* The empty file, and a file with a token after its function.
StraySources ==
    {<<>>,
     FunctionSource("main", <<>>, ReturnSource(NumberSource(0))) \o <<Word("Semicolon")>>}

\* name = e;
AssignSource(name, e) ==
    <<Identifier(name), Word("Equals")>> \o e \o <<Word("Semicolon")>>

\* A statement that declares a name or assigns to one.
StatementChoices == [var : BOOLEAN, name : {"a", "c"}]

StatementSource(s) ==
    IF s.var THEN VarSource(s.name, NumberSource(0))
    ELSE AssignSource(s.name, NumberSource(0))

\* fn main:(args){ stmts return 0; }
DeclaringSource(args, stmts) ==
    FunctionSource("main", args,
        ConcatAll([i \in 1..Len(stmts) |-> StatementSource(stmts[i])])
            \o ReturnSource(NumberSource(0)))

DeclaringArgs == {<<>>, <<"a">>}

\* Functions that declare and assign a and c in any order, a being an
\* argument or not.
DeclaringSources ==
    {DeclaringSource(args, stmts) :
        args \in DeclaringArgs, stmts \in SeqsUpTo(StatementChoices, MaxStatements)}

\* fn f1:(){ return 1; return 2; .. } fn main:(){ return @f1(); } with any
\* number of returns in f1, none included.
ReturningSources ==
    {FunctionSource("f1", <<>>,
            ConcatAll([i \in 1..n |-> ReturnSource(NumberSource(i))]))
        \o FunctionSource("main", <<>>, ReturnSource(CallSource("f1", 0))) :
     n \in 0..MaxStatements}

\* The names an expression reads: an argument, a variable, a name that is
\* never declared.
ReadNames == {"a", "c", "d"}

\* fn f1:(a){ return a; } fn main:(args){ var c = x; return @f1(y + c); }
ReadingSource(args, x, y) ==
    FunctionSource("f1", <<"a">>, ReturnSource(<<Identifier("a")>>))
        \o FunctionSource("main", args,
                VarSource("c", <<Identifier(x)>>)
                    \o ReturnSource(
                            <<Word("Call"), Identifier("f1"), Word("LeftPar"), Identifier(y),
                              Token("BinaryOperation", "Add", 0), Identifier("c"),
                              Word("RightPar")>>))

\* A function that reads names in its expressions, declared or not.
ReadingSources ==
    {ReadingSource(args, x, y) : args \in DeclaringArgs, x \in ReadNames, y \in ReadNames}

Sources ==
    ExprSources \cup CallSources \cup LocalSources \cup StraySources
        \cup DeclaringSources \cup ReturningSources \cup ReadingSources

\* Parser::from_file and generate_tokens, before generate_program.
InitParse ==
    /\ StackIdle
    /\ LexerIdle
    /\ DriverIdle
    /\ EzIdle
    /\ tokens \in Sources
    /\ precedence \in PrecedenceTables
    /\ position = 0
    /\ current_token = NoToken
    /\ lookahead_token = tokens_get(0)
    /\ functions = <<>>
    /\ pstatus = IF Len(tokens) = 0 THEN "panicked" ELSE "parsing"
    /\ message = IF Len(tokens) = 0
                 THEN "Empty source file. Try writting a main function first."
                 ELSE ""
    /\ expr = NumberLiteral(0)
    /\ locals = LocalStack_new
    /\ program = <<>>
    /\ code = <<>>
    /\ regs = [r \in RegNames |-> Undef]
    /\ mem = [a \in Addrs |-> Undef]
    /\ pc = 1
    /\ mstatus = "idle"
    /\ exit_code = Undef
    /\ trace = <<>>
    /\ frames = <<>>

NextParse == NextFunction \/ UnexpectedToken \/ ReturnProgram \/ WriteProgram \/ SaveBuffer

Spec == InitParse /\ [][NextParse]_vars

(***************************************************************************)
(* The meaning of the language: the value of an expression over wrapping   *)
(* integers, and the value a function returns.                             *)
(***************************************************************************)
RECURSIVE RefEval(_, _, _)
RECURSIVE RefRun(_, _, _, _)
RECURSIVE RefCall(_, _, _)

\* env[i + 1] is the value of local i.
RefEval(e, env, fs) ==
    CASE e.kind = "NumberLiteral" -> e.value % Modulus
      [] e.kind = "Local" -> env[e.index + 1]
      [] e.kind = "Binary" ->
            AluResult(get_instruction(e.operator),
                      RefEval(e.left, env, fs), RefEval(e.right, env, fs))
      [] e.kind = "Call" ->
            RefCall(fs, e.index, [i \in 1..Len(e.args) |-> RefEval(e.args[i], env, fs)])

\* The locals of function fn entered with these argument values.
EntryEnv(fn, argvals) ==
    [k \in 1..Len(fn.locals) |->
        IF \E i \in 1..Len(fn.arguments) : fn.arguments[i] = k - 1
        THEN argvals[CHOOSE i \in 1..Len(fn.arguments) : fn.arguments[i] = k - 1]
        ELSE Undef]

RefCall(fs, index, argvals) ==
    RefRun(fs[index + 1].body.statements, 1, EntryEnv(fs[index + 1], argvals), fs)

\* The value returned by the statements from the k-th on.
RefRun(stmts, k, env, fs) ==
    IF k > Len(stmts) THEN Undef
    ELSE CASE stmts[k].kind = "Assign" ->
                RefRun(stmts, k + 1,
                       [env EXCEPT ![stmts[k].local + 1] =
                            RefEval(stmts[k].expression, env, fs)], fs)
           [] stmts[k].kind = "Return" -> RefEval(stmts[k].expression, env, fs)
           [] stmts[k].kind = "Call" -> RefRun(stmts, k + 1, env, fs)

\* The values of the locals in the frame InitExpr builds.
ExprEnv == [i \in 1..Len(locals) |-> LeafValue(i - 1)]

Eval(e) == RefEval(e, ExprEnv, <<>>)

RECURSIVE NoDoubleBinary(_)
\* No Binary node of e has two Binary operands.
NoDoubleBinary(e) ==
    \/ e.kind # "Binary"
    \/ /\ ~(e.left.kind = "Binary" /\ e.right.kind = "Binary")
       /\ NoDoubleBinary(e.left)
       /\ NoDoubleBinary(e.right)

\* C1 as stated: for every tree of NumberLiteral, Local and Binary nodes, the
\* emitted code leaves the value of the tree in the target register.
C1_EveryTreeShape ==
    mstatus = "done" => regs[RCX] = Eval(expr)

\* C1 as amended: the emitted code leaves the value of the tree in the target
\* register for every tree in which no Binary node has two Binary operands.
C1_NoDoubleBinary ==
    (mstatus = "done" /\ NoDoubleBinary(expr)) => regs[RCX] = Eval(expr)

\* 2+3*4 has been generated and run, and the target register holds 14.
C1_Witness ==
    /\ mstatus = "done"
    /\ expr = Binary("Add", NumberLiteral(2),
                     Binary("Mul", NumberLiteral(3), NumberLiteral(4)))
    /\ regs[RCX] = 14

(***************************************************************************)
(* The calls of a run in the order the language makes them, each with the  *)
(* values of its argument expressions.                                     *)
(***************************************************************************)
RECURSIVE RefCallsExpr(_, _, _)
RECURSIVE RefCallsRun(_, _, _, _)

RefCallsExpr(e, env, fs) ==
    CASE e.kind = "Binary" ->
            RefCallsExpr(e.left, env, fs) \o RefCallsExpr(e.right, env, fs)
      [] e.kind = "Call" ->
            LET argvals == [i \in 1..Len(e.args) |-> RefEval(e.args[i], env, fs)]
            IN  ConcatAll([i \in 1..Len(e.args) |-> RefCallsExpr(e.args[i], env, fs)])
                    \o <<[fn |-> e.index, args |-> argvals]>>
                    \o RefCallsRun(fs[e.index + 1].body.statements, 1,
                                   EntryEnv(fs[e.index + 1], argvals), fs)
      [] OTHER -> <<>>

RefCallsRun(stmts, k, env, fs) ==
    IF k > Len(stmts) THEN <<>>
    ELSE CASE stmts[k].kind = "Assign" ->
                RefCallsExpr(stmts[k].expression, env, fs)
                    \o RefCallsRun(stmts, k + 1,
                           [env EXCEPT ![stmts[k].local + 1] =
                                RefEval(stmts[k].expression, env, fs)], fs)
           [] stmts[k].kind = "Return" -> RefCallsExpr(stmts[k].expression, env, fs)
           [] stmts[k].kind = "Call" ->
                RefCallsExpr(stmts[k].expression, env, fs)
                    \o RefCallsRun(stmts, k + 1, env, fs)

MainIndex(fs) == (CHOOSE i \in 1..Len(fs) : fs[i].name = "main") - 1

RefCalls(fs) ==
    <<[fn |-> MainIndex(fs), args |-> <<>>]>>
        \o RefCallsRun(fs[MainIndex(fs) + 1].body.statements, 1,
                       EntryEnv(fs[MainIndex(fs) + 1], <<>>), fs)

CallsSoFar == Cardinality({k \in 1..Len(trace) : trace[k][1] = "call"})

\* The first line of the body of function fn: its prologue has run.
BodyStart(fn) == LabelIndex(code, fn.name, FALSE) + Len(write_prologue(fn))

\* C2: once the prologue of a called function has run, its i-th declared
\* argument local holds the value of the caller's i-th argument expression.
C2_ArgumentsInDeclarationOrder ==
    \A j \in 1..Len(program) :
        (mstatus = "running" /\ pc = BodyStart(program[j])) =>
            LET fn == program[j]
                call == RefCalls(program)[CallsSoFar]
            IN  \A i \in 1..Len(fn.arguments) :
                    LET argument == LocalStack_get(fn.locals, fn.arguments[i])
                    IN  mem[regs[RBP] - (argument.offset + argument.size)] = call.args[i]

(***************************************************************************)
(* C3: the order of evaluation, pushes and calls.                          *)
(***************************************************************************)
RECURSIVE ExpectedExpr(_, _)
RECURSIVE ExpectedBody(_, _, _)

\* The immediates, pushes and calls of an expression: a literal is one
\* immediate; a Call evaluates and pushes its arguments one after the other,
\* left to right, then calls, and the callee pushes the frame pointer and runs
\* its body; of a Binary node the nested side comes first.
ExpectedExpr(e, fs) ==
    CASE e.kind = "NumberLiteral" -> <<<<"mov_imm", e.value>>>>
      [] e.kind = "Local" -> <<>>
      [] e.kind = "Binary" ->
            IF e.left.kind # "Binary" /\ e.right.kind = "Binary"
            THEN ExpectedExpr(e.right, fs) \o ExpectedExpr(e.left, fs)
            ELSE ExpectedExpr(e.left, fs) \o ExpectedExpr(e.right, fs)
      [] e.kind = "Call" ->
            ConcatAll([i \in 1..Len(e.args) |->
                    ExpectedExpr(e.args[i], fs) \o <<<<"push", RCX>>>>])
                \o <<<<"call", fs[e.index + 1].name>>, <<"push", RBP>>>>
                \o ExpectedBody(fs[e.index + 1].body.statements, 1, fs)

ExpectedBody(stmts, k, fs) ==
    IF k > Len(stmts) THEN <<>>
    ELSE IF stmts[k].kind = "Return" THEN ExpectedExpr(stmts[k].expression, fs)
    ELSE ExpectedExpr(stmts[k].expression, fs) \o ExpectedBody(stmts, k + 1, fs)

ExpectedTrace(fs) ==
    <<<<"call", "main">>, <<"push", RBP>>>>
        \o ExpectedBody(fs[MainIndex(fs) + 1].body.statements, 1, fs)
        \o <<<<"mov_imm", SysExit>>>>

IsPrefix(s, t) == Len(s) <= Len(t) /\ \A k \in 1..Len(s) : s[k] = t[k]

\* C3: every Call evaluates and pushes its arguments strictly left to right,
\* the push of one argument before the evaluation of the next, and calls only
\* after the last push.
C3_PushesLeftToRight ==
    IsPrefix(trace, ExpectedTrace(program))

\* add(2,3) has run to its exit: 2 was pushed, then 3, then add was called,
\* and the process exits with 5.
C3_Witness ==
    /\ mstatus = "exited"
    /\ program = <<Callee(2, "Add"),
                   MainReturning(CallExpr(0, <<NumberLiteral(2), NumberLiteral(3)>>))>>
    /\ trace = <<<<"call", "main">>, <<"push", RBP>>,
                 <<"mov_imm", 2>>, <<"push", RCX>>,
                 <<"mov_imm", 3>>, <<"push", RCX>>,
                 <<"call", "f">>, <<"push", RBP>>, <<"mov_imm", SysExit>>>>
    /\ exit_code = 5

\* C4: the value passed to exit is the value of the expression of the Return
\* statement that main executed.
C4_ExitCodeIsReturnValue ==
    mstatus = "exited" => exit_code = RefCall(program, MainIndex(program), <<>>)

\* C6: the stack pointer is a multiple of 16 at every call instruction.
C6_AlignedAtEveryCall ==
    (mstatus = "running" /\ pc <= Len(code) /\ code[pc].op = "call")
        => regs[RSP] % 16 = 0

(***************************************************************************)
(* Properties of the parser and of the text generated from its Program.    *)
(***************************************************************************)
Parsed == pstatus \in {"returned", "generated"}

Stopped == pstatus \in {"panicked", "returned", "generated"}

RoundUp16(n) == 16 * ((n + 15) \div 16)

IsReservation(i) == i.op = "sub_imm"

\* The "sub rsp, n" lines of the text, one for each function, in order.
Reservations == SelectSeq(code, IsReservation)

\* C5: the stack reservation of every generated function is its locals
\* footprint plus 8 rounded up to the next multiple of 16, a multiple of 16.
C5_ReservationRounded ==
    pstatus = "generated" =>
        /\ Len(Reservations) = Len(program)
        /\ \A k \in 1..Len(program) :
            /\ Reservations[k].imm = RoundUp16(LocalStack_get_size(program[k].locals) + 8)
            /\ Reservations[k].imm % 16 = 0

\* A function of two locals, 16 bytes, has been generated: it reserves 32.
C5_Witness ==
    /\ pstatus = "generated"
    /\ Len(program) = 1
    /\ Len(program[1].locals) = 2
    /\ Reservations[1].imm = 32

IsOperation(token) == token.token_type = "BinaryOperation"

\* The operators of the source, in source order.
SourceOps == [i \in 1..Len(SelectSeq(tokens, IsOperation)) |->
                SelectSeq(tokens, IsOperation)[i].text]

\* The expression of the first statement of the first function.
Tree == program[1].body.statements[1].expression

RECURSIVE Subtrees(_)
Subtrees(e) ==
    CASE e.kind = "Binary" -> {e} \cup Subtrees(e.left) \cup Subtrees(e.right)
      [] e.kind = "Call" -> {e} \cup UNION {Subtrees(e.args[i]) : i \in 1..Len(e.args)}
      [] OTHER -> {e}

RECURSIVE Leftmost(_)
Leftmost(e) == IF e.kind = "Binary" THEN Leftmost(e.left) ELSE e

RECURSIVE Rightmost(_)
Rightmost(e) == IF e.kind = "Binary" THEN Rightmost(e.right) ELSE e

\* The nodes of the tree built for the i-th operator of the source: it stands
\* between the operands i and i + 1.
OperationNodes(i) ==
    {n \in Subtrees(Tree) :
        /\ n.kind = "Binary"
        /\ n.operator = SourceOps[i]
        /\ Rightmost(n.left) = NumberLiteral(i)
        /\ Leftmost(n.right) = NumberLiteral(i + 1)}

Below(n) == (Subtrees(n.left) \cup Subtrees(n.right))

\* C7: of two adjacent operators of different precedence, the operation of
\* the higher precedence is inside an operand of the other, whichever comes
\* first: 1+2*3 is Add(1, Mul(2,3)) and 1*2+3 is Add(Mul(1,2), 3).
C7_HigherPrecedenceIsOperand ==
    tokens \in ExprSources =>
        /\ pstatus # "panicked"
        /\ Parsed =>
            /\ \A i \in 1..(Len(SourceOps) - 1) :
                 /\ get_precedence(SourceOps[i]) < get_precedence(SourceOps[i + 1]) =>
                        \E lo \in OperationNodes(i) :
                            \E hi \in OperationNodes(i + 1) : hi \in Below(lo)
                 /\ get_precedence(SourceOps[i]) > get_precedence(SourceOps[i + 1]) =>
                        \E lo \in OperationNodes(i + 1) :
                            \E hi \in OperationNodes(i) : hi \in Below(lo)
            /\ SourceOps = <<"Add", "Mul">> =>
                 Tree = Binary("Add", NumberLiteral(1),
                               Binary("Mul", NumberLiteral(2), NumberLiteral(3)))
            /\ SourceOps = <<"Mul", "Add">> =>
                 Tree = Binary("Add", Binary("Mul", NumberLiteral(1), NumberLiteral(2)),
                               NumberLiteral(3))

\* 1*2+3 has been parsed, to Add(Mul(1,2), 3).
C7_Witness ==
    /\ pstatus = "returned"
    /\ tokens \in ExprSources
    /\ SourceOps = <<"Mul", "Add">>
    /\ Tree = Binary("Add", Binary("Mul", NumberLiteral(1), NumberLiteral(2)),
                     NumberLiteral(3))

\* C8: of two adjacent operators of equal precedence the second operation is
\* the right operand of the first: a op1 b op2 c is Binary(op1, a, Binary(op2, b, c)).
C8_EqualPrecedenceGroupsRight ==
    (tokens \in ExprSources /\ Parsed) =>
        /\ \A i \in 1..(Len(SourceOps) - 1) :
             get_precedence(SourceOps[i]) = get_precedence(SourceOps[i + 1]) =>
                \E first \in OperationNodes(i) : first.right \in OperationNodes(i + 1)
        /\ (/\ Len(SourceOps) = 2
            /\ get_precedence(SourceOps[1]) = get_precedence(SourceOps[2])) =>
                Tree = Binary(SourceOps[1], NumberLiteral(1),
                              Binary(SourceOps[2], NumberLiteral(2), NumberLiteral(3)))

\* 1-2+3 with subtraction and addition of equal precedence has been parsed,
\* to Sub(1, Add(2,3)).
C8_Witness ==
    /\ pstatus = "returned"
    /\ tokens \in ExprSources
    /\ SourceOps = <<"Sub", "Add">>
    /\ get_precedence("Sub") = get_precedence("Add")
    /\ Tree = Binary("Sub", NumberLiteral(1),
                     Binary("Add", NumberLiteral(2), NumberLiteral(3)))

\* The places of the source where a function is called.
CallSites == {i \in 1..Len(tokens) : tokens[i].token_type = "Call"}

\* The places of the source where a function is declared.
Declarations == {j \in 1..Len(tokens) : tokens[j].token_type = "Function"}

\* The number, from 1, of the function the place i of the source is in.
Enclosing(i) == Cardinality({j \in Declarations : j <= i})

\* The place where the parenthesis opened at place i closes; the sources
\* have no parentheses inside an argument list.
Closing(i) == CHOOSE j \in i..Len(tokens) :
                /\ tokens[j].token_type = "RightPar"
                /\ \A m \in i..(j - 1) : tokens[m].token_type # "RightPar"

CountBetween(i, j, token_type) ==
    Cardinality({m \in i..j : tokens[m].token_type = token_type})

\* The number of the function the call at place i names, 0 if none has the name.
DeclaredAs(i) ==
    IF \E j \in Declarations : tokens[j + 1].text = tokens[i + 1].text
    THEN Enclosing(CHOOSE j \in Declarations : tokens[j + 1].text = tokens[i + 1].text)
    ELSE 0

\* The number of arguments the function declared at place j declares.
DeclaredArguments(j) == CountBetween(j + 3, Closing(j + 3), "Identifier")

DeclaredArgumentsOf(i) ==
    DeclaredArguments(CHOOSE j \in Declarations : tokens[j + 1].text = tokens[i + 1].text)

\* The number of arguments of the call at place i.
CallArguments(i) == CountBetween(i + 2, Closing(i + 2), "NumberLiteral")

\* The callee of the call at place i was declared before the function the call is in.
DeclaredEarlier(i) == DeclaredAs(i) > 0 /\ DeclaredAs(i) < Enclosing(i)

\* C9: a call of an already declared function with a number of arguments
\* other than the declared one is fatal, and with exactly that number yields
\* a Call node of the arguments in source order.
C9_ArityEnforced ==
    (tokens \in CallSources /\ Stopped) =>
        \A i \in CallSites :
            DeclaredEarlier(i) =>
                IF CallArguments(i) # DeclaredArgumentsOf(i)
                THEN pstatus = "panicked" /\ message = "Unmatched number of arguments."
                ELSE /\ Parsed
                     /\ program[Enclosing(i)].body.statements[1] =
                            Return(CallExpr(DeclaredAs(i) - 1,
                                [k \in 1..CallArguments(i) |-> NumberLiteral(k)]))

\* f2 calls f1, which declares two arguments, with 1 and 2: the Program holds
\* Call(0, [1, 2]).
C9_Witness ==
    /\ pstatus = "returned"
    /\ tokens \in CallSources
    /\ Len(program) = 2
    /\ Len(program[1].arguments) = 2
    /\ program[2].body.statements[1] =
            Return(CallExpr(0, <<NumberLiteral(1), NumberLiteral(2)>>))

\* The Call nodes of a function.
CallsOf(function) ==
    {n \in UNION {Subtrees(function.body.statements[k].expression) :
                    k \in 1..Len(function.body.statements)} : n.kind = "Call"}

\* C10: a call of a function declared later, or of the function the call is
\* in, is a fatal "Call to undefined function."; every Call in function
\* number k of the parsed functions has an index below k.
C10_CallsResolveEarlier ==
    /\ \A k \in 1..Len(functions) : \A call \in CallsOf(functions[k]) : call.index < k - 1
    /\ \A k \in 1..Len(program) : \A call \in CallsOf(program[k]) : call.index < k - 1
    /\ (tokens \in CallSources /\ Stopped) =>
            \A i \in CallSites :
                ~DeclaredEarlier(i) =>
                    pstatus = "panicked" /\ message = "Call to undefined function."

\* A function that calls itself has stopped the parser.
C10_Witness ==
    /\ pstatus = "panicked"
    /\ message = "Call to undefined function."
    /\ tokens \in CallSources
    /\ \E i \in CallSites : DeclaredAs(i) = Enclosing(i)

(***************************************************************************)
(* The entry point.                                                        *)
(***************************************************************************)
HasMain(fns) == \E i \in 1..Len(fns) : fns[i].name = "main"

\* C11: a program with no function, or with functions none of which is named
\* main, is rejected by the parser: generate_program never returns it and
\* write_program never emits text for it.
C11_NoMainIsRejected == Parsed => HasMain(program)

(***************************************************************************)
(* A LocalStack under any sequence of insert calls, as next_args makes     *)
(* them: the index each call returns is pushed on args.                    *)
(***************************************************************************)
\* Most insert calls on one LocalStack.
MaxInserts == 3

\* TypeSize: Byte, Word, Double, Quad.
Sizes == {1, 2, 4, 8}

Labels == {"a", "b", "c"}

\* No text is generated and no machine runs.
MachineIdle ==
    /\ expr = NumberLiteral(0)
    /\ program = <<>>
    /\ code = <<>>
    /\ regs = [r \in RegNames |-> Undef]
    /\ mem = [a \in Addrs |-> Undef]
    /\ pc = 1
    /\ mstatus = "idle"
    /\ exit_code = Undef
    /\ trace = <<>>
    /\ frames = <<>>

\* LocalStack::new()
InitLocals ==
    /\ ParserIdle
    /\ LexerIdle
    /\ DriverIdle
    /\ EzIdle
    /\ MachineIdle
    /\ locals = LocalStack_new
    /\ arg_indices = <<>>
    /\ inserts = <<>>

\* let index = locals.insert(label, size); args.push(index);
Insert ==
    /\ Len(inserts) < MaxInserts
    /\ \E label \in Labels, size \in Sizes :
         /\ locals' = LocalStack_insert_table(locals, label, size)
         /\ arg_indices' = Append(arg_indices, LocalStack_insert_index(locals, label, size))
         /\ inserts' = Append(inserts, [label |-> label, size |-> size, locals |-> locals])
    /\ UNCHANGED <<parser_vars, lexer_vars, driver_vars, ez_vars>>
    /\ UNCHANGED <<expr, program, code, regs, mem, pc, mstatus, exit_code, trace, frames>>

NextLocals == Insert

SpecLocals == InitLocals /\ [][NextLocals]_vars

\* The three inserts were of distinct names of size 8.
ThreeQuads ==
    /\ Len(inserts) = 3
    /\ \A i \in 1..3 : inserts[i].size = 8
    /\ \A i, j \in 1..3 : i # j => inserts[i].label # inserts[j].label

\* C12: after any sequence of inserts the first local has offset 0, every
\* later local starts where the one before it ends, and get_size() is the end
\* of the last local, 0 for an empty table; three distinct names of size 8
\* get the offsets 0, 8, 16 and get_size() is 24.
C12_OffsetsChain ==
    /\ Len(locals) > 0 => locals[1].offset = 0
    /\ \A i \in 2..Len(locals) : locals[i].offset = locals[i - 1].offset + locals[i - 1].size
    /\ \A i \in 2..Len(locals) : locals[i].offset >= locals[i - 1].offset
    /\ LocalStack_get_size(locals) =
          IF Len(locals) = 0 THEN 0
          ELSE locals[Len(locals)].offset + locals[Len(locals)].size
    /\ ThreeQuads =>
          /\ [i \in 1..Len(locals) |-> locals[i].offset] = <<0, 8, 16>>
          /\ LocalStack_get_size(locals) = 24

\* Three distinct names of size 8 have been inserted.
C12_Witness ==
    /\ ThreeQuads
    /\ Len(locals) = 3
    /\ LocalStack_get_size(locals) = 24

\* The table the k-th insert left.
TableAfter(k) == IF k < Len(inserts) THEN inserts[k + 1].locals ELSE locals

\* The 0-based index of the local of that label in a table that has one.
IndexOf(table, label) == (CHOOSE i \in 1..Len(table) : table[i].label = label) - 1

\* C13: an insert of a name the table already holds returns the index of the
\* local of that name and leaves the table as it was, whatever the size
\* passed; two inserts of one name return the same index, and the table holds
\* one local for the name.
C13_ReinsertKeepsTable ==
    /\ \A k \in 1..Len(inserts) :
          (\E i \in 1..Len(inserts[k].locals) : inserts[k].locals[i].label = inserts[k].label)
              => /\ TableAfter(k) = inserts[k].locals
                 /\ arg_indices[k] = IndexOf(inserts[k].locals, inserts[k].label)
                 /\ LocalStack_get_size(TableAfter(k)) = LocalStack_get_size(inserts[k].locals)
    /\ \A j, k \in 1..Len(inserts) :
          inserts[j].label = inserts[k].label => arg_indices[j] = arg_indices[k]
    /\ \A k \in 1..Len(inserts) :
          Cardinality({i \in 1..Len(locals) : locals[i].label = inserts[k].label}) = 1

\* fn f:(a, b, a): the name a, first declared, is inserted again with another
\* size after b.
C13_Witness ==
    /\ Len(inserts) = 3
    /\ inserts[1].label = inserts[3].label
    /\ inserts[1].label # inserts[2].label
    /\ inserts[1].size # inserts[3].size
    /\ Len(locals) = 2
    /\ arg_indices = <<0, 1, 0>>

(***************************************************************************)
(* lexer.rs: Position, Lexer.  A byte is a string of one character, NUL    *)
(* the byte 0.  The functions of the lexer take and return the fields of   *)
(* the Lexer as l = [position, current_char, reached_eof, file_position,   *)
(* err, hung]: err is the message of the panic that stopped it, hung is    *)
(* set when it entered a loop it cannot leave.                             *)
(***************************************************************************)
Position_start == [line |-> 1, column |-> 1]

Position_new_line(fp) == [line |-> fp.line + 1, column |-> 1]

Position_next_column(fp) == [fp EXCEPT !.column = @ + 1]

LexerSelf ==
    [position |-> lexer_position, current_char |-> current_char,
     reached_eof |-> reached_eof, file_position |-> file_position,
     err |-> "", hung |-> FALSE]

\* Token { token_type, position }; text and number are the payload of the
\* TokenType, offset the index in data of the byte next() dispatched on.
LexToken(token_type, text, number, token_position) ==
    [token_type |-> token_type, text |-> text, number |-> number,
     position |-> token_position, offset |-> 0]

NoLexToken == LexToken("None", <<>>, 0, Position_start)

\* Some(token)
Lexed(l, token) == [l |-> l, token |-> token, none |-> FALSE]

\* a panic inside a read_* function
LexPanic(l, text) == [l |-> panic(l, text), token |-> NoLexToken, none |-> FALSE]

Digits == {"0", "1", "2", "3", "4", "5", "6", "7", "8", "9"}

LowerCase ==
    {"a", "b", "c", "d", "e", "f", "g", "h", "i", "j", "k", "l", "m",
     "n", "o", "p", "q", "r", "s", "t", "u", "v", "w", "x", "y", "z"}

UpperCase ==
    {"A", "B", "C", "D", "E", "F", "G", "H", "I", "J", "K", "L", "M",
     "N", "O", "P", "Q", "R", "S", "T", "U", "V", "W", "X", "Y", "Z"}

\* char::is_whitespace, char::is_numeric, char::is_alphanumeric on ASCII
is_whitespace(c) == c \in {" ", "\n", "\t", "\r"}

is_numeric(c) == c \in Digits

is_alphanumeric(c) == c \in Digits \cup LowerCase \cup UpperCase

\* c - b'0', 10 + c - b'a', 10 + c - b'A'
DigitValue(c) ==
    CASE c = "0" -> 0 [] c = "1" -> 1 [] c = "2" -> 2 [] c = "3" -> 3 [] c = "4" -> 4
      [] c = "5" -> 5 [] c = "6" -> 6 [] c = "7" -> 7 [] c = "8" -> 8 [] c = "9" -> 9
      [] c \in {"a", "A"} -> 10 [] c \in {"b", "B"} -> 11 [] c \in {"c", "C"} -> 12
      [] c \in {"d", "D"} -> 13 [] c \in {"e", "E"} -> 14 [] c \in {"f", "F"} -> 15
      [] OTHER -> 16

next_char(l) ==
    [l EXCEPT
        !.file_position = IF l.current_char = "\n" THEN Position_new_line(@)
                          ELSE Position_next_column(@),
        !.position = IF l.position + 1 < Len(data) THEN @ + 1 ELSE @,
        !.current_char = IF l.position + 1 < Len(data) THEN data[l.position + 2] ELSE @,
        !.reached_eof = IF l.position + 1 < Len(data) THEN @ ELSE TRUE]

RECURSIVE skip_whitespaces(_)
skip_whitespaces(l) ==
    IF is_whitespace(l.current_char) /\ ~l.reached_eof
    THEN skip_whitespaces(next_char(l))
    ELSE l

\* read_not, read_xor, read_or, read_and, read_div, read_mul, read_comma,
\* read_equals, read_r_brace, read_l_brace, read_r_par, read_l_par,
\* read_semicolon, read_colon: the token at the current position, then next_char
read_single(l, token_type) ==
    Lexed(next_char(l), LexToken(token_type, <<>>, 0, l.file_position))

\* after let c = self.next_char()
read_sub_second(l, current_position) ==
    IF l.current_char = "-"
    THEN Lexed(next_char(l), LexToken("UnaryDec", <<>>, 0, current_position))
    ELSE Lexed(l, LexToken("BinarySub", <<>>, 0, l.file_position))

read_sub(l) == read_sub_second(next_char(l), l.file_position)

read_add_second(l, current_position) ==
    IF l.current_char = "+"
    THEN Lexed(next_char(l), LexToken("UnaryInc", <<>>, 0, current_position))
    ELSE Lexed(l, LexToken("BinaryAdd", <<>>, 0, l.file_position))

read_add(l) == read_add_second(next_char(l), l.file_position)

\* the byte an escape stands for in a character literal; c stays the
\* backslash for any other
CharacterEscape(c) ==
    CASE c = "'" -> "'" [] c = "n" -> "\n" [] c = "t" -> "\t" [] c = "r" -> "\r"
      [] c = "0" -> "NUL" [] c = "\\" -> "\\" [] OTHER -> "\\"

\* if self.next_char() != b'\'' { panic } self.next_char();
read_character_close(l, c, current_position) ==
    IF l.current_char # "'"
    THEN LexPanic(l, "Expected closing character sign")
    ELSE Lexed(next_char(l), LexToken("Character", <<c>>, 0, current_position))

read_character_escaped(l, current_position) ==
    read_character_close(next_char(l), CharacterEscape(l.current_char), current_position)

read_character_first(l, current_position) ==
    IF l.current_char = "\\"
    THEN read_character_escaped(next_char(l), current_position)
    ELSE read_character_close(next_char(l), l.current_char, current_position)

read_character(l) == read_character_first(next_char(l), l.file_position)

\* what an escaped byte pushes on the buffer of a string literal
StringEscape(c) ==
    CASE c = "\"" -> <<"\"">> [] c = "n" -> <<"\n">> [] c = "t" -> <<"\t">>
      [] c = "r" -> <<"\r">> [] c = "0" -> <<"NUL">> [] c = "\\" -> <<"\\">>
      [] OTHER -> <<>>

RECURSIVE read_string_loop(_, _, _)
\* while ((c == b'"' && escape) || (c != b'"')) && !self.reached_eof
read_string_loop(l, buffer, escape) ==
    IF ((l.current_char = "\"" /\ escape) \/ l.current_char # "\"") /\ ~l.reached_eof
    THEN read_string_loop(
            next_char(l),
            IF escape THEN buffer \o StringEscape(l.current_char)
            ELSE IF l.current_char = "\\" THEN buffer
            ELSE Append(buffer, l.current_char),
            ~escape /\ l.current_char = "\\")
    ELSE [l |-> l, buffer |-> buffer]

\* if c != b'"' { panic } self.next_char();
read_string_close(r, current_position) ==
    IF r.l.current_char # "\""
    THEN LexPanic(r.l, "Expected closing string sign")
    ELSE Lexed(next_char(r.l), LexToken("StringLiteral", r.buffer, 0, current_position))

read_string(l) ==
    read_string_close(read_string_loop(next_char(l), <<>>, FALSE), l.file_position)

RECURSIVE read_identifier_loop(_, _)
\* while (c as char).is_alphanumeric() || c == b'_' && !self.reached_eof:
\* && binds tighter than ||.  Once reached_eof is set next_char changes
\* neither current_char nor reached_eof, so a condition that holds then
\* holds for ever.
read_identifier_loop(l, buffer) ==
    IF is_alphanumeric(l.current_char) \/ (l.current_char = "_" /\ ~l.reached_eof)
    THEN IF l.reached_eof
         THEN [l |-> [l EXCEPT !.hung = TRUE], buffer |-> buffer]
         ELSE read_identifier_loop(next_char(l), Append(buffer, l.current_char))
    ELSE [l |-> l, buffer |-> buffer]

\* match label.as_str()
Keyword(label) ==
    CASE label = <<"r", "e", "t", "u", "r", "n">> -> "Return"
      [] label = <<"i", "f">> -> "If"
      [] label = <<"w", "h", "i", "l", "e">> -> "While"
      [] label = <<"f", "o", "r">> -> "For"
      [] label = <<"t", "r", "u", "e">> -> "True"
      [] label = <<"f", "a", "l", "s", "e">> -> "False"
      [] OTHER -> "Identifier"

read_identifier_token(r, current_position) ==
    [l |-> r.l, none |-> FALSE,
     token |-> LexToken(Keyword(r.buffer),
                        IF Keyword(r.buffer) = "Identifier" THEN r.buffer ELSE <<>>,
                        0, current_position)]

read_identifier(l) == read_identifier_token(read_identifier_loop(l, <<>>), l.file_position)

\* hexadecimal digits whose letters count from 0
DigitAccepted_letters_from_zero(c, base) ==
    CASE base = 2 -> IF c \in {"0", "1"} THEN DigitValue(c) ELSE -1
      [] base = 8 -> IF c \in Digits /\ DigitValue(c) <= 7 THEN DigitValue(c) ELSE -1
      [] base = 16 -> IF DigitValue(c) < 10 THEN DigitValue(c)
                      ELSE IF DigitValue(c) < 16 THEN DigitValue(c) - 10 ELSE -1
      [] OTHER -> IF is_numeric(c) THEN DigitValue(c) ELSE -1

\* the value of a digit the base accepts, -1 for a byte it does not
DigitAccepted(c, base) ==
    CASE base = 2 -> IF c \in {"0", "1"} THEN DigitValue(c) ELSE -1
      [] base = 8 -> IF c \in Digits /\ DigitValue(c) <= 7 THEN DigitValue(c) ELSE -1
      [] base = 16 -> IF DigitValue(c) < 16 THEN DigitValue(c) ELSE -1
      [] OTHER -> IF is_numeric(c) THEN DigitValue(c) ELSE -1

InvalidNumber(base) ==
    CASE base = 2 -> "Invalid binary number"
      [] base = 8 -> "Invalid octal number"
      [] base = 16 -> "Invalid hexadecimal number"
      [] OTHER -> "Invalid decimal number"

RECURSIVE next_digits(_, _, _)
\* the loop of next_binary, next_octal, next_hexadecimal and next_decimal:
\* while (c as char).is_alphanumeric() && !self.reached_eof
\*     { result = result * base + digit; c = self.next_char(); }
\* over u64: an overflow panics in a build with overflow checks and wraps in
\* one without.
next_digits(l, result, base) ==
    IF is_alphanumeric(l.current_char) /\ ~l.reached_eof
    THEN IF DigitAccepted(l.current_char, base) < 0
         THEN [l |-> panic(l, InvalidNumber(base)), result |-> result]
         ELSE IF result * base + DigitAccepted(l.current_char, base) >= Modulus
                    /\ overflow_checks
         THEN [l |-> panic(l, "attempt to multiply with overflow"), result |-> result]
         ELSE next_digits(next_char(l),
                          (result * base + DigitAccepted(l.current_char, base)) % Modulus,
                          base)
    ELSE [l |-> l, result |-> result]

next_binary(l) == next_digits(l, 0, 2)

next_octal(l) == next_digits(l, 0, 8)

next_hexadecimal(l) == next_digits(l, 0, 16)

next_decimal(l) == next_digits(l, 0, 10)

\* let number = match base { 2 => .., 8 => .., 10 => .., 16 => .., _ => panic }
read_number_like_radix(l, base) ==
    CASE base = 2 -> next_binary(l)
      [] base = 8 -> next_octal(l)
      [] base = 10 -> next_decimal(l)
      [] base = 16 -> next_hexadecimal(l)
      [] OTHER -> [l |-> panic(l, "Unkown numerical base"), result |-> 0]

read_number_like_token(r, current_position) ==
    [l |-> r.l, none |-> FALSE,
     token |-> LexToken("NumberLiteral", <<>>, r.result, current_position)]

\* after let base = self.next_decimal()
read_number_like_base(r, current_position) ==
    IF Ok(r.l) /\ r.l.current_char = "#"
    THEN read_number_like_token(read_number_like_radix(next_char(r.l), r.result),
                                current_position)
    ELSE read_number_like_token(r, current_position)

read_number_like(l) == read_number_like_base(next_decimal(l), l.file_position)

\* return match self.current_char { ... }
Lexer_next_match(l) ==
    CASE l.current_char = ":" -> read_single(l, "Colon")
      [] l.current_char = "(" -> read_single(l, "LeftPar")
      [] l.current_char = ")" -> read_single(l, "RightPar")
      [] l.current_char = "{" -> read_single(l, "LeftBrace")
      [] l.current_char = "}" -> read_single(l, "RightBrace")
      [] l.current_char = ";" -> read_single(l, "Semicolon")
      [] l.current_char = "+" -> read_add(l)
      [] l.current_char = "-" -> read_sub(l)
      [] l.current_char = "=" -> read_single(l, "Equals")
      [] l.current_char = "/" -> read_single(l, "BinaryDiv")
      [] l.current_char = "*" -> read_single(l, "BinaryMul")
      [] l.current_char = "," -> read_single(l, "Comma")
      [] l.current_char = "&" -> read_single(l, "BinaryAnd")
      [] l.current_char = "|" -> read_single(l, "BinaryOr")
      [] l.current_char = "^" -> read_single(l, "BinaryXor")
      [] l.current_char = "!" -> read_single(l, "UnaryNot")
      [] l.current_char \in Digits -> read_number_like(l)
      [] l.current_char \in LowerCase \cup (UpperCase \ {"Z"}) \cup {"_"} -> read_identifier(l)
      [] l.current_char = "\"" -> read_string(l)
      [] l.current_char = "'" -> read_character(l)
      [] OTHER -> LexPanic(l, "Unkown token")

\* the token with the index of its first byte
Lexer_next_from(r, offset) == [r EXCEPT !.token.offset = offset]

\* after self.skip_whitespaces()
Lexer_next_skipped(l) ==
    IF l.reached_eof
    THEN [l |-> l, token |-> NoLexToken, none |-> TRUE]
    ELSE Lexer_next_from(Lexer_next_match(l), l.position)

Lexer_next(l) == Lexer_next_skipped(skip_whitespaces(l))

(***************************************************************************)
(* Parser::generate_tokens: the lexer called until it returns None.        *)
(***************************************************************************)
machine_vars == <<expr, locals, program, code, regs, mem, pc, mstatus, exit_code, trace, frames>>

\* the fields of the Lexer after a call
LexerBecomes(l) ==
    /\ lexer_position' = l.position
    /\ current_char' = l.current_char
    /\ reached_eof' = l.reached_eof
    /\ file_position' = l.file_position

\* Some(token) => self.tokens.push(token)
PushToken(r) ==
    /\ Ok(r.l) /\ ~r.l.hung /\ ~r.none
    /\ LexerBecomes(r.l)
    /\ tokens' = Append(tokens, r.token)
    /\ UNCHANGED <<lstatus, lookahead_token, pstatus, message>>

NextToken ==
    /\ lstatus = "lexing"
    /\ PushToken(Lexer_next(LexerSelf))
    /\ UNCHANGED <<data, overflow_checks, position, current_token, functions, precedence>>
    /\ UNCHANGED <<machine_vars, stack_vars, driver_vars, ez_vars>>

\* None: the loop ends; an empty token vector is a panic, else the first
\* token becomes the lookahead
EndOfTokens(r) ==
    /\ Ok(r.l) /\ ~r.l.hung /\ r.none
    /\ LexerBecomes(r.l)
    /\ lstatus' = "exhausted"
    /\ IF Len(tokens) = 0
       THEN /\ pstatus' = "panicked"
            /\ message' = "Empty source file. Try writting a main function first."
            /\ UNCHANGED lookahead_token
       ELSE /\ lookahead_token' = tokens[1]
            /\ UNCHANGED <<pstatus, message>>

NextNone ==
    /\ lstatus = "lexing"
    /\ EndOfTokens(Lexer_next(LexerSelf))
    /\ UNCHANGED <<data, overflow_checks, tokens, position, current_token, functions,
                   precedence>>
    /\ UNCHANGED <<machine_vars, stack_vars, driver_vars, ez_vars>>

\* a panic of the lexer ends the process
Panics(r) ==
    /\ ~Ok(r.l)
    /\ lstatus' = "panicked"
    /\ message' = r.l.err

NextPanics ==
    /\ lstatus = "lexing"
    /\ Panics(Lexer_next(LexerSelf))
    /\ UNCHANGED <<data, lexer_position, current_char, reached_eof, file_position,
                   overflow_checks>>
    /\ UNCHANGED <<tokens, position, current_token, lookahead_token, functions, pstatus,
                   precedence>>
    /\ UNCHANGED <<machine_vars, stack_vars, driver_vars, ez_vars>>

\* the call never returns
Hangs(r) ==
    /\ r.l.hung
    /\ lstatus' = "hung"

NextHangs ==
    /\ lstatus = "lexing"
    /\ Hangs(Lexer_next(LexerSelf))
    /\ UNCHANGED <<data, lexer_position, current_char, reached_eof, file_position,
                   overflow_checks>>
    /\ UNCHANGED <<parser_vars, machine_vars, stack_vars, driver_vars, ez_vars>>

(***************************************************************************)
(* Source files, as bytes.                                                 *)
(***************************************************************************)
\* Most bytes of a source file over Alphabet.
MaxBytes == 4

\* Most digits after the # of a number.
MaxDigits == 4

Alphabet == {"a", "1", "+", "-", "\"", "\\", " ", "\n", ";"}

\* the digit runs before a #, or of a number without one
Radixes == {<<"2">>, <<"8">>, <<"9">>, <<"1", "0">>, <<"1", "6">>, <<"4", "2">>}

DigitBytes == {"0", "1", "7", "f", "g"}

Tails == {<<>>, <<";">>}

\* 16#ff, 2#1010;, 42, 9#1, ...
NumberBuffers(n) ==
    {radix \o tail : radix \in Radixes, tail \in Tails}
    \cup {radix \o <<"#">> \o run \o tail :
            radix \in Radixes, run \in SeqsUpTo(DigitBytes, n), tail \in Tails}

\* character literals, keywords, names and punctuation
SampleBuffers ==
    {<<"'", "a", "'">>, <<"'", "\\", "n", "'">>, <<"'", "a">>, <<"i", "f">>, <<"Z">>,
     <<"_">>, <<"a", "_">>, <<"x", "=", "1", ";">>, <<"f", "(", "a", ",", "b", ")">>,
     <<"{", "}", ":", "*", "/", "&", "|", "^", "!">>}

Buffers(n, m) ==
    UNION {[1..k -> Alphabet] : k \in 1..n} \cup NumberBuffers(m) \cup SampleBuffers

\* Lexer::from_file on one of the files
InitLexFrom(files) ==
    /\ ParserIdle
    /\ StackIdle
    /\ DriverIdle
    /\ EzIdle
    /\ MachineIdle
    /\ locals = LocalStack_new
    /\ data \in files
    /\ lexer_position = 0
    /\ current_char = data[1]
    /\ reached_eof = FALSE
    /\ file_position = Position_start
    /\ lstatus = "lexing"
    /\ overflow_checks \in BOOLEAN

InitLex == InitLexFrom(Buffers(MaxBytes, MaxDigits))

NextLex == NextToken \/ NextNone \/ NextPanics \/ NextHangs

SpecLex == InitLex /\ [][NextLex]_vars

(***************************************************************************)
(* Number literals: what a source file that starts with a number should    *)
(* yield, read off the bytes of the file.                                  *)
(***************************************************************************)
RECURSIVE RunLength(_, _)
\* The length of the longest run of bytes of a set that starts at data[i].
RunLength(i, S) ==
    IF i <= Len(data) /\ data[i] \in S THEN 1 + RunLength(i + 1, S) ELSE 0

RECURSIVE ValueIn(_, _, _)
\* The value of the first n bytes of a run of digits in a radix.
ValueIn(run, n, radix) ==
    IF n = 0 THEN 0 ELSE ValueIn(run, n - 1, radix) * radix + DigitValue(run[n])

LeadLength == RunLength(1, Digits)

LeadValue == ValueIn(data, LeadLength, 10)

\* The file starts with a run of decimal digits that ends at a byte that is
\* no letter, or at the end of the file.
NumberLike ==
    /\ data[1] \in Digits
    /\ LeadLength = Len(data) \/ ~is_alphanumeric(data[LeadLength + 1])

HashFollows == LeadLength < Len(data) /\ data[LeadLength + 1] = "#"

\* The run of digits and letters after the #.
RadixRun ==
    SubSeq(data, LeadLength + 2,
           LeadLength + 1 + RunLength(LeadLength + 2, Digits \cup LowerCase \cup UpperCase))

\* The first call of next() has ended.
FirstCallEnded == Len(tokens) >= 1 \/ lstatus \in {"exhausted", "panicked", "hung"}

FirstIsNumber(n) ==
    /\ Len(tokens) >= 1
    /\ tokens[1].token_type = "NumberLiteral"
    /\ tokens[1].number = n

Fatal == lstatus = "panicked" /\ tokens = <<>>

C15_LexingEnds == <>(lstatus \in {"exhausted", "panicked"})

\* Most bytes of a source file whose lexing is followed to its end.
MaxLiveBytes == 2

InitLexLive == InitLexFrom(UNION {[1..k -> Alphabet] : k \in 1..MaxLiveBytes})

\* generate_tokens calls the lexer again as long as it returns a token, and
\* a call that can return does.
SpecLexLive == InitLexLive /\ [][NextLex]_vars /\ WF_vars(NextLex)

(***************************************************************************)
(* String literals and token positions, read off the bytes of the file.    *)
(***************************************************************************)
RECURSIVE ClosesFrom(_, _)
\* The string literal whose content starts at data[i] has an unescaped
\* closing quote before the end of the file.
ClosesFrom(i, escape) ==
    IF i > Len(data) THEN FALSE
    ELSE IF escape THEN ClosesFrom(i + 1, FALSE)
    ELSE IF data[i] = "\"" THEN TRUE
    ELSE ClosesFrom(i + 1, data[i] = "\\")

\* C19: a string literal opened by a quote and with no unescaped closing
\* quote before the end of the file yields no StringLiteral token, also when
\* the opening quote is the last byte of the file and when the file ends in
\* an escaped quote.
C19_UnterminatedIsNoToken ==
    \A k \in 1..Len(tokens) :
        tokens[k].token_type = "StringLiteral" => ClosesFrom(tokens[k].offset + 2, FALSE)

\* The bytes before the byte of 0-based index offset that are newlines.
NewlinesBefore(offset) == {i \in 1..offset : data[i] = "\n"}

\* The 1-based line and column of the byte of 0-based index offset.
PositionOf(offset) ==
    [line |-> 1 + Cardinality(NewlinesBefore(offset)),
     column |-> offset + 1 - (IF NewlinesBefore(offset) = {} THEN 0
                              ELSE CHOOSE i \in NewlinesBefore(offset) :
                                       \A j \in NewlinesBefore(offset) : j <= i)]

\* C20: every token the lexer returns carries the line and column of its
\* first byte, both counted from 1 and the column starting again at 1 after a
\* newline, whatever the kind of the token, + and - included.
C20_TokensCarryTheirStart ==
    \A k \in 1..Len(tokens) : tokens[k].position = PositionOf(tokens[k].offset)

(***************************************************************************)
(* The first error ends the compilation.                                   *)
(***************************************************************************)
\* C16: once a stage reports an error the compilation ends in failure: no
\* later stage runs, the linker is not invoked after an assembler failure, no
\* second error is reported, and the run does not end as a success.
C16_FirstErrorEndsTheRun ==
    /\ pstatus = "panicked" => (code = <<>> /\ driver = "idle" /\ invoked = <<>>)
    /\ \A i \in 1..Len(invoked) :
          invoked[i].outcome # "succeeded" => /\ Len(invoked) = i
                                              /\ driver # "returned"

(***************************************************************************)
(* ezlang.rs: the single-file compiler that main.rs builds.  Its Tokenizer *)
(* is a field of its Parser, and hands over one token for each call of     *)
(* Parser::consume.                                                        *)
(***************************************************************************)
EzToken(kind, at, value) ==
    [kind |-> kind, position |-> at, value |-> value]

\* Option::None where a token is expected.
EzNone == [kind |-> "None", position |-> [line |-> 0, column |-> 0], value |-> <<>>]

\* Parser::new and Tokenizer::new, with the log of what the two have done.
Parser_new ==
    [cursor |-> 0, line |-> 1, column |-> 1, reached_eof |-> FALSE,
     lookahead |-> EzNone, current |-> EzNone, string_literals |-> <<>>,
     log |-> <<>>, err |-> "", fatal |-> ""]

\* panic!, and unwrap on None or Err.
EzPanic(ps, text) ==
    IF ps.fatal # "" THEN ps ELSE [ps EXCEPT !.err = text, !.fatal = "panic"]

\* return Err(SyntaxError { .. }).
EzError(ps, text) ==
    IF ps.fatal # "" THEN ps ELSE [ps EXCEPT !.err = text, !.fatal = "error"]

EzOk(ps) == ps.fatal = ""

\* The position a token of Tokenizer::next carries.
current_position(ps) == [line |-> ps.line, column |-> ps.column]

\* The token next returns, the cursor moved past the bytes it matched.
Matched(ps, length, token) ==
    [ps |-> [ps EXCEPT !.cursor = @ + length, !.column = @ + length,
                       !.log = Append(@, "lexed")],
     token |-> token]

NoMatch(ps, text) == [ps |-> EzPanic(ps, text), token |-> EzNone]

RECURSIVE MatchRun(_, _)
\* The length of the longest run of bytes of a set that starts at the i-th
\* byte of the source.
MatchRun(i, S) ==
    IF i <= Len(source_code) /\ source_code[i] \in S
    THEN 1 + MatchRun(i + 1, S) ELSE 0

\* ^[-+]?\d+ : the length of the match at the cursor, 0 when there is none.
NumberMatch(cursor) ==
    IF source_code[cursor + 1] \in {"-", "+"}
    THEN (IF MatchRun(cursor + 2, Digits) > 0
          THEN 1 + MatchRun(cursor + 2, Digits) ELSE 0)
    ELSE MatchRun(cursor + 1, Digits)

\* str::parse::<u32> of a matched number, then unwrap: a minus sign and a
\* value beyond the word are both Err.
number_literal(ps, length) ==
    IF source_code[ps.cursor + 1] = "-"
    THEN NoMatch(ps, "called Result::unwrap() on an Err value")
    ELSE IF source_code[ps.cursor + 1] = "+"
    THEN (IF ValueIn(SubSeq(source_code, ps.cursor + 2, ps.cursor + length),
                     length - 1, 10) >= Modulus
          THEN NoMatch(ps, "called Result::unwrap() on an Err value")
          ELSE Matched(ps, length,
                   EzToken("NumberLiteral", current_position(ps),
                       ValueIn(SubSeq(source_code, ps.cursor + 2,
                                      ps.cursor + length), length - 1, 10))))
    ELSE (IF ValueIn(SubSeq(source_code, ps.cursor + 1, ps.cursor + length),
                     length, 10) >= Modulus
          THEN NoMatch(ps, "called Result::unwrap() on an Err value")
          ELSE Matched(ps, length,
                   EzToken("NumberLiteral", current_position(ps),
                       ValueIn(SubSeq(source_code, ps.cursor + 1,
                                      ps.cursor + length), length, 10))))

\* The match on the byte the binary operator pattern accepted.
binary_operator(ps, c) ==
    CASE c = "+" -> Matched(ps, 1, EzToken("BinaryOperator", current_position(ps), "Addition"))
      [] c = "-" -> Matched(ps, 1, EzToken("BinaryOperator", current_position(ps), "Subtraction"))
      [] c = "*" -> Matched(ps, 1, EzToken("BinaryOperator", current_position(ps), "Multiplication"))
      [] c = "/" -> Matched(ps, 1, EzToken("BinaryOperator", current_position(ps), "Division"))
      [] c = "&" -> Matched(ps, 1, EzToken("BinaryOperator", current_position(ps), "And"))
      [] c = "|" -> Matched(ps, 1, EzToken("BinaryOperator", current_position(ps), "Or"))
      [] c = "^" -> Matched(ps, 1, EzToken("BinaryOperator", current_position(ps), "Xor"))
      [] OTHER -> NoMatch([ps EXCEPT !.cursor = @ + 1, !.column = @ + 1],
                          "Unkown binary operator")

\* ^[a-zA-Z_][a-zA-Z0-9_]* : return, asm, or a symbol.
symbol(ps, text) ==
    IF text = <<"r", "e", "t", "u", "r", "n">>
    THEN Matched(ps, Len(text), EzToken("Return", current_position(ps), <<>>))
    ELSE IF text = <<"a", "s", "m">>
    THEN Matched(ps, Len(text), EzToken("Assembly", current_position(ps), <<>>))
    ELSE Matched(ps, Len(text), EzToken("Symbol", current_position(ps), text))

\* ^[{}():,]
special(ps, c) ==
    Matched(ps, 1,
        EzToken(CASE c = "(" -> "OpenParenthesis"
                  [] c = ")" -> "CloseParenthesis"
                  [] c = "{" -> "OpenBracket"
                  [] c = "}" -> "CloseBracket"
                  [] c = ":" -> "Colon"
                  [] c = "," -> "Comma",
                current_position(ps), <<>>))

RECURSIVE StringClose(_)
\* The pattern of a string, a quote, then bytes that are no quote and no
\* backslash or a backslash and any byte but a newline, then a quote: the
\* index of the closing quote of the string whose body starts at the i-th
\* byte, 0 when the pattern does not match.
StringClose(i) ==
    IF i > Len(source_code) THEN 0
    ELSE IF source_code[i] = "\"" THEN i
    ELSE IF source_code[i] = "\\"
    THEN (IF i + 1 > Len(source_code) \/ source_code[i + 1] = "\n" THEN 0
          ELSE StringClose(i + 2))
    ELSE StringClose(i + 1)

RECURSIVE trim_matches(_)
\* str::trim_matches on the quote: every quote at either end is taken off.
trim_matches(text) ==
    IF text = <<>> THEN text
    ELSE IF Head(text) = "\"" THEN trim_matches(Tail(text))
    ELSE IF text[Len(text)] = "\"" THEN trim_matches(SubSeq(text, 1, Len(text) - 1))
    ELSE text

string_literal(ps, close) ==
    IF close = 0
    THEN NoMatch(ps, "Syntax error")
    ELSE Matched(ps, close - ps.cursor,
             EzToken("StringLiteral", current_position(ps),
                 trim_matches(SubSeq(source_code, ps.cursor + 1, close))))

\* The patterns of Tokenizer::next after the white space, in their order.
Tokenizer_next_match(ps, c) ==
    IF NumberMatch(ps.cursor) > 0 THEN number_literal(ps, NumberMatch(ps.cursor))
    ELSE IF c \in {"+", "-", "*", "/", "&", "|", "^", "%"} THEN binary_operator(ps, c)
    ELSE IF c = "=" THEN Matched(ps, 1, EzToken("Equal", current_position(ps), <<>>))
    ELSE IF c = ";" THEN Matched(ps, 1, EzToken("Semicolon", current_position(ps), <<>>))
    ELSE IF c \in LowerCase \cup UpperCase \cup {"_"}
    THEN symbol(ps, SubSeq(source_code, ps.cursor + 1,
                    ps.cursor + MatchRun(ps.cursor + 1,
                        LowerCase \cup UpperCase \cup Digits \cup {"_"})))
    ELSE IF c \in {"{", "}", "(", ")", ":", ","} THEN special(ps, c)
    ELSE IF c = "\"" THEN string_literal(ps, StringClose(ps.cursor + 2))
    ELSE NoMatch(ps, "Syntax error")

RECURSIVE Tokenizer_next(_)
\* Tokenizer::next: None once the end was reported, EOF at the end, the next
\* token otherwise; white space is passed by a call of itself.
Tokenizer_next(ps) ==
    IF ~EzOk(ps) \/ ps.reached_eof THEN [ps |-> ps, token |-> EzNone]
    ELSE IF ~(ps.cursor < Len(source_code))
    THEN [ps |-> [ps EXCEPT !.reached_eof = TRUE, !.log = Append(@, "lexed")],
          token |-> EzToken("EOF", current_position(ps), <<>>)]
    ELSE IF source_code[ps.cursor + 1] \in {" ", "\t", "\n", "\r"}
    THEN Tokenizer_next(
             IF source_code[ps.cursor + 1] = "\n"
             THEN [ps EXCEPT !.cursor = @ + 1, !.line = @ + 1, !.column = 1]
             ELSE [ps EXCEPT !.cursor = @ + 1, !.column = @ + 1])
    ELSE Tokenizer_next_match(ps, source_code[ps.cursor + 1])

(***************************************************************************)
(* ezlang.rs: Parser.  Every function returns the parser it leaves and the *)
(* value it built.                                                         *)
(***************************************************************************)
EzNumberLiteral(value) == [kind |-> "NumberLiteral", value |-> value]

EzStringLiteral(label, string) ==
    [kind |-> "StringLiteral", label |-> label, string |-> string]

EzSymbol(name) == [kind |-> "Symbol", name |-> name]

EzCallStatement(name, args) ==
    [kind |-> "CallStatement", name |-> name, arguments |-> args]

EzBinaryOperation(operator, left, right) ==
    [kind |-> "BinaryOperation", operator |-> operator,
     left |-> left, right |-> right]

EzAssignStatement(symbol_name, expression) ==
    [kind |-> "AssignStatement", symbol_name |-> symbol_name,
     expression |-> expression]

EzReturnStatement(return_value) ==
    [kind |-> "ReturnStatement", return_value |-> return_value]

EzFunctionDeclaration(function_name, args, statements) ==
    [function_name |-> function_name, arguments |-> args,
     statements |-> statements]

\* What a function that did not return has built.
NoValue == [kind |-> "None"]

Returns(ps, v) == [ps |-> ps, v |-> v]

\* token.unwrap() and then panic!("Syntax error: ..").
SyntaxPanic(ps, token) ==
    IF token.kind = "None"
    THEN EzPanic(ps, "called Option::unwrap() on a None value")
    ELSE EzPanic(ps, "Syntax error")

\* token.unwrap() and then return Err(SyntaxError { .. }).
SyntaxErr(ps, token, text) ==
    IF token.kind = "None"
    THEN EzPanic(ps, "called Option::unwrap() on a None value")
    ELSE EzError(ps, text)

\* The second half of Parser::consume.
consume_lookahead(r, current) ==
    [r.ps EXCEPT !.lookahead = r.token, !.current = current]

\* Parser::consume: the lookahead becomes the current token, and the
\* tokenizer is asked for the one after it.
Parser_consume(ps) ==
    IF ~EzOk(ps) THEN ps
    ELSE consume_lookahead(
             Tokenizer_next([ps EXCEPT !.log = IF ps.lookahead.kind = "None"
                                                THEN @ ELSE Append(@, "consumed")]),
             ps.lookahead)

RECURSIVE Parser_expression(_)
RECURSIVE Parser_argument_list_call(_)
RECURSIVE argument_list_call_loop(_, _)

expression_binary(r, operator, left) ==
    Returns(r.ps, EzBinaryOperation(operator, left, r.v))

\* Parser::expression after the token that follows a binary operator.
expression_operand(ps, operator) ==
    IF ~EzOk(ps) THEN Returns(ps, NoValue)
    ELSE IF ps.current.kind = "NumberLiteral"
    THEN expression_binary(Parser_expression(ps), operator,
                           EzNumberLiteral(ps.current.value))
    ELSE IF ps.current.kind = "Symbol"
    THEN expression_binary(Parser_expression(ps), operator,
                           EzSymbol(ps.current.value))
    ELSE Returns(SyntaxPanic(ps, ps.current), NoValue)

expression_call(r, symbol_name) ==
    Returns(r.ps, EzCallStatement(symbol_name, r.v))

\* Parser::expression after its first token.
expression_token(ps) ==
    IF ~EzOk(ps) THEN Returns(ps, NoValue)
    ELSE IF ps.current.kind = "BinaryOperator"
    THEN expression_operand(Parser_consume(ps), ps.current.value)
    ELSE IF ps.current.kind = "NumberLiteral"
    THEN Returns(ps, EzNumberLiteral(ps.current.value))
    ELSE IF ps.current.kind = "StringLiteral"
    THEN Returns([ps EXCEPT !.string_literals =
                      Append(@, [label |-> Len(ps.string_literals),
                                 string |-> ps.current.value])],
                 EzStringLiteral(Len(ps.string_literals), ps.current.value))
    ELSE IF ps.current.kind = "Symbol"
    THEN (IF ps.lookahead.kind = "OpenParenthesis"
          THEN expression_call(Parser_argument_list_call(ps), ps.current.value)
          ELSE Returns(ps, EzSymbol(ps.current.value)))
    ELSE Returns(SyntaxPanic(ps, ps.current), NoValue)

\* Parser::expression: an operator comes before its two operands, the left
\* one a number or a symbol, the right one an expression.
Parser_expression(ps) ==
    IF ~EzOk(ps) THEN Returns(ps, NoValue)
    ELSE expression_token(Parser_consume(ps))

\* The loop of argument_list_call after an argument and the token behind it.
argument_list_call_separator(ps, args) ==
    IF ~EzOk(ps) THEN Returns(ps, NoValue)
    ELSE IF ps.current.kind = "Comma" THEN argument_list_call_loop(ps, args)
    ELSE IF ps.current.kind = "CloseParenthesis" THEN Returns(ps, args)
    ELSE Returns(SyntaxPanic(ps, ps.current), NoValue)

argument_list_call_argument(r, args) ==
    argument_list_call_separator(Parser_consume(r.ps), Append(args, r.v))

\* The loop of argument_list_call: a closing parenthesis in the lookahead
\* ends it and is left there.
argument_list_call_loop(ps, args) ==
    IF ~EzOk(ps) THEN Returns(ps, NoValue)
    ELSE IF ps.lookahead.kind = "CloseParenthesis" THEN Returns(ps, args)
    ELSE argument_list_call_argument(Parser_expression(ps), args)

argument_list_call_token(ps) ==
    IF ~EzOk(ps) THEN Returns(ps, NoValue)
    ELSE IF ps.current.kind = "OpenParenthesis"
    THEN argument_list_call_loop(ps, <<>>)
    ELSE Returns(SyntaxPanic(ps, ps.current), NoValue)

\* Parser::argument_list_call
Parser_argument_list_call(ps) ==
    IF ~EzOk(ps) THEN Returns(ps, NoValue)
    ELSE argument_list_call_token(Parser_consume(ps))

statement_assign(r, symbol_name) ==
    Returns(r.ps, EzAssignStatement(symbol_name, r.v))

statement_return(r) == Returns(r.ps, EzReturnStatement(r.v))

\* Parser::statement after its first token.
statement_token(ps) ==
    IF ~EzOk(ps) THEN Returns(ps, NoValue)
    ELSE IF ps.current.kind = "Symbol"
    THEN (IF ps.lookahead.kind = "Equal"
          THEN statement_assign(Parser_expression(Parser_consume(ps)),
                                ps.current.value)
          ELSE IF ps.lookahead.kind = "OpenParenthesis"
          THEN expression_call(Parser_argument_list_call(ps), ps.current.value)
          ELSE Returns(SyntaxPanic(ps, ps.current), NoValue))
    ELSE IF ps.current.kind = "Return"
    THEN statement_return(Parser_expression(ps))
    ELSE Returns(SyntaxPanic(ps, ps.current), NoValue)

\* Parser::statement
Parser_statement(ps) ==
    IF ~EzOk(ps) THEN Returns(ps, NoValue)
    ELSE statement_token(Parser_consume(ps))

RECURSIVE function_body_loop(_, _)

\* The loop of function_body after a statement and the token behind it.
function_body_separator(ps, statements) ==
    IF ~EzOk(ps) THEN Returns(ps, NoValue)
    ELSE IF ps.current.kind = "Semicolon" THEN function_body_loop(ps, statements)
    ELSE Returns(EzPanic(ps, "Syntax error"), NoValue)

function_body_statement(r, statements) ==
    function_body_separator(Parser_consume(r.ps), Append(statements, r.v))

\* The loop of function_body: a closing bracket in the lookahead ends it.
function_body_loop(ps, statements) ==
    IF ~EzOk(ps) THEN Returns(ps, NoValue)
    ELSE IF ps.lookahead.kind = "CloseBracket"
    THEN Returns(Parser_consume(ps), statements)
    ELSE function_body_statement(Parser_statement(ps), statements)

function_body_token(ps) ==
    IF ~EzOk(ps) THEN Returns(ps, NoValue)
    ELSE IF ps.current.kind = "OpenBracket" THEN function_body_loop(ps, <<>>)
    ELSE Returns(SyntaxPanic(ps, ps.current), NoValue)

\* Parser::function_body
Parser_function_body(ps) ==
    IF ~EzOk(ps) THEN Returns(ps, NoValue)
    ELSE function_body_token(Parser_consume(ps))

RECURSIVE argument_list_declaration_loop(_, _)

\* The loop of argument_list_declaration after a name and the token behind it.
argument_list_declaration_separator(ps, args) ==
    IF ~EzOk(ps) THEN Returns(ps, NoValue)
    ELSE IF ps.current.kind = "Comma"
    THEN argument_list_declaration_loop(Parser_consume(ps), args)
    ELSE IF ps.current.kind = "CloseParenthesis" THEN Returns(ps, args)
    ELSE Returns(SyntaxErr(ps, ps.current, "No se weey"), NoValue)

\* while let Some(Token::Symbol(..)) = self.consume(): any other token ends
\* the loop and the list is returned.
argument_list_declaration_loop(ps, args) ==
    IF ~EzOk(ps) THEN Returns(ps, NoValue)
    ELSE IF ps.current.kind = "Symbol"
    THEN argument_list_declaration_separator(Parser_consume(ps),
             Append(args, ps.current.value))
    ELSE Returns(ps, args)

argument_list_declaration_token(ps) ==
    IF ~EzOk(ps) THEN Returns(ps, NoValue)
    ELSE IF ps.current.kind = "OpenParenthesis"
    THEN (IF ps.lookahead.kind = "CloseParenthesis"
          THEN Returns(Parser_consume(ps), <<>>)
          ELSE IF ps.lookahead.kind = "Symbol"
          THEN argument_list_declaration_loop(Parser_consume(ps), <<>>)
          ELSE Returns(EzError(ps,
                   "Unexpected token at function's close argument list declaration"),
                   NoValue))
    ELSE Returns(SyntaxErr(ps, ps.current,
             "Unexpected token at function's argument list declaration"), NoValue)

\* Parser::argument_list_declaration
Parser_argument_list_declaration(ps) ==
    IF ~EzOk(ps) THEN Returns(ps, NoValue)
    ELSE argument_list_declaration_token(Parser_consume(ps))

function_statements(r, function_name, args) ==
    Returns(r.ps, EzFunctionDeclaration(function_name, args, r.v))

function_arguments(r, function_name) ==
    IF ~EzOk(r.ps) THEN Returns(r.ps, NoValue)
    ELSE function_statements(Parser_function_body(r.ps), function_name, r.v)

\* Parser::function after the token behind the name.
function_colon(ps, function_name) ==
    IF ~EzOk(ps) THEN Returns(ps, NoValue)
    ELSE IF ps.current.kind = "Colon"
    THEN function_arguments(Parser_argument_list_declaration(ps), function_name)
    ELSE Returns(EzError(ps, "Missing token at function declaration"), NoValue)

function_token(ps) ==
    IF ~EzOk(ps) THEN Returns(ps, NoValue)
    ELSE IF ps.current.kind = "Symbol"
    THEN function_colon(Parser_consume(ps), ps.current.value)
    ELSE Returns(SyntaxErr(ps, ps.current,
             "Unexpected token at function declaration"), NoValue)

\* Parser::function
Parser_function(ps) ==
    IF ~EzOk(ps) THEN Returns(ps, NoValue)
    ELSE function_token(Parser_consume(ps))

\* fn main is among the functions.
any_main(fns) ==
    \E i \in 1..Len(fns) :
        fns[i].function_name = <<"m", "a", "i", "n">>

\* Parser::program after its loop.
program_checks(ps, fns) ==
    IF ~EzOk(ps) THEN Returns(ps, NoValue)
    ELSE IF Len(fns) < 1
    THEN Returns(EzError(ps, "Program cannot be empty"), NoValue)
    ELSE IF ~any_main(fns)
    THEN Returns(EzError(ps, "No entry point: Missing main function"), NoValue)
    ELSE Returns(ps, [functions |-> fns,
                      string_literals |-> ps.string_literals])

RECURSIVE program_loop(_, _)

program_function(r, fns) ==
    IF ~EzOk(r.ps) THEN Returns(r.ps, NoValue)
    ELSE program_loop(r.ps, Append(fns, r.v))

\* The loop of Parser::program: it ends at EOF, or when nothing is left.
program_loop(ps, fns) ==
    IF ~EzOk(ps) THEN Returns(ps, NoValue)
    ELSE IF ps.lookahead.kind = "None" THEN program_checks(ps, fns)
    ELSE IF ps.lookahead.kind = "EOF"
    THEN program_checks(Parser_consume(ps), fns)
    ELSE program_function(Parser_function(ps), fns)

\* Parser::program
Parser_program(ps) == program_loop(ps, <<>>)

parse_lookahead(r) == [r.ps EXCEPT !.lookahead = r.token]

\* Parser::parse: the first token is asked for, then the program is parsed.
Parser_parse(ps) == Parser_program(parse_lookahead(Tokenizer_next(ps)))

(***************************************************************************)
(* ezlang.rs: Compiler.  The assembly text is a sequence of lines.         *)
(***************************************************************************)
Line(op, a, b) == [op |-> op, a |-> a, b |-> b]

\* let regs = ["edi", "esi", "edx", "ecx"];
argument_registers == <<"edi", "esi", "edx", "ecx">>

\* The mnemonic Compiler::expression chooses for a binary operator.
mnemonic(operator) ==
    CASE operator = "Addition" -> "add"
      [] operator = "Subtraction" -> "sub"
      [] operator = "Multiplication" -> "imul"
      [] operator = "Division" -> "idiv"
      [] operator = "And" -> "and"
      [] operator = "Or" -> "or"
      [] operator = "Xor" -> "xor"

\* mov regs[count], eax: an index past the array is a panic.
move_argument(count) ==
    IF count > Len(argument_registers)
    THEN <<IPanic("index out of bounds")>>
    ELSE <<Line("mov", argument_registers[count], "eax")>>

RECURSIVE Compiler_expression(_, _, _)
\* Compiler::expression: the text that leaves the value of an expression in
\* a register; table is the HashMap of the locals.
Compiler_expression(expression, reg, table) ==
    CASE expression.kind = "NumberLiteral" ->
            <<Line("mov", reg, expression.value)>>
      [] expression.kind = "Symbol" ->
            IF expression.name \in DOMAIN table
            THEN <<Line("mov", reg, [rbp_minus |-> table[expression.name]])>>
            ELSE <<IPanic("Runtime error: Unknown symbol")>>
      [] expression.kind = "CallStatement" ->
            ConcatAll([i \in 1..Len(expression.arguments) |->
                Compiler_expression(expression.arguments[i], "eax", table)
                    \o move_argument(i)])
                \o <<Line("call", expression.name, "")>>
      [] expression.kind = "BinaryOperation" ->
            Compiler_expression(expression.right, "eax", table)
                \o Compiler_expression(expression.left, "edi", table)
                \o <<Line(mnemonic(expression.operator), "eax", "edi")>>
      [] expression.kind = "StringLiteral" ->
            <<Line("mov", reg, [label |-> expression.label])>>

\* locals.insert(name, offset)
table_insert(table, name, offset) ==
    [x \in DOMAIN table \cup {name} |-> IF x = name THEN offset ELSE table[x]]

RECURSIVE declaration_arguments(_, _, _)
\* The first loop of function_declaration: the locals after the first count
\* arguments.
declaration_arguments(args, count, table) ==
    IF count = 0 THEN table
    ELSE table_insert(declaration_arguments(args, count - 1, table),
                      args[count], 4 * count)

\* The lines the first loop of function_declaration writes.
declaration_argument_lines(args) ==
    [i \in 1..Len(args) |->
        IF i > Len(argument_registers) THEN IPanic("index out of bounds")
        ELSE Line("mov", [rbp_minus |-> 4 * i], argument_registers[i])]

RECURSIVE declaration_statements(_, _, _, _, _)
\* The second loop of function_declaration from its i-th statement: the body
\* written, and the offset reached.
declaration_statements(function, i, offset, table, text) ==
    IF i > Len(function.statements) THEN [text |-> text, offset |-> offset]
    ELSE IF function.statements[i].kind = "AssignStatement"
    THEN (IF function.statements[i].symbol_name \in DOMAIN table
          THEN declaration_statements(function, i + 1, offset, table,
                   text \o Compiler_expression(function.statements[i].expression,
                                               "eax", table)
                        \o <<Line("mov", [rbp_minus |-> offset], "eax")>>)
          ELSE declaration_statements(function, i + 1, offset + 4,
                   table_insert(table, function.statements[i].symbol_name, offset + 4),
                   text \o Compiler_expression(function.statements[i].expression,
                               "eax",
                               table_insert(table, function.statements[i].symbol_name,
                                            offset + 4))
                        \o <<Line("mov", [rbp_minus |-> offset + 4], "eax")>>))
    ELSE IF function.statements[i].kind = "ReturnStatement"
    THEN declaration_statements(function, i + 1, offset, table,
             text \o Compiler_expression(function.statements[i].return_value,
                                         "eax", table)
                  \o <<Line("jmp", function.function_name, "ret")>>)
    ELSE declaration_statements(function, i + 1, offset, table,
             text \o Compiler_expression(function.statements[i], "eax", table))

\* The text of function_declaration around the body it has written.
declaration_text(function, body) ==
    <<Line("label", function.function_name, ""),
      Line("push", "rbp", ""),
      Line("mov", "rbp", "rsp"),
      Line("sub", "rsp", body.offset + (8 - (body.offset % 8)))>>
        \o body.text
        \o <<Line("label", function.function_name, "ret"),
             Line("mov", "rsp", "rbp"),
             Line("pop", "rbp", ""),
             Line("ret", "", "")>>

\* Compiler::function_declaration
Compiler_function_declaration(function) ==
    declaration_text(function,
        declaration_statements(function, 1, 4 * Len(function.arguments),
            declaration_arguments(function.arguments, Len(function.arguments),
                                  <<>>),
            declaration_argument_lines(function.arguments)))

\* The lines of the function write that Compiler::program always emits.
write_routine ==
    <<Line("label", "write", ""), Line("push", "rbp", ""),
      Line("mov", "rbp", "rsp"), Line("mov", "rax", 1), Line("syscall", "", ""),
      Line("mov", "rsp", "rbp"), Line("pop", "rbp", ""), Line("ret", "", "")>>

\* Compiler::program: the data section, write, the functions, _start.
Compiler_program(prog) ==
    <<Line("section", ".data", "")>>
        \o [i \in 1..Len(prog.string_literals) |->
               Line("db", prog.string_literals[i].label,
                    prog.string_literals[i].string)]
        \o <<Line("section", ".text", ""), Line("global", "_start", "")>>
        \o write_routine
        \o ConcatAll([i \in 1..Len(prog.functions) |->
               Compiler_function_declaration(prog.functions[i])])
        \o <<Line("label", "_start", ""), Line("call", "main", ""),
             Line("mov", "rdi", "rax"), Line("mov", "rax", 60),
             Line("syscall", "", "")>>

\* What Compiler::assemble leaves: its Result, or the panic that ended it.
Assembled(status, prog, text, events, error) ==
    [status |-> status, program |-> prog, text |-> text, log |-> events,
     error |-> error]

\* The second half of Compiler::assemble: the text of the parsed program.
assemble_program(r, text) ==
    IF Panicked(text)
    THEN Assembled("panicked", r.v, <<>>, r.ps.log \o <<"parsed", "emitted">>,
                   "panic while the text was written")
    ELSE Assembled("assembled", r.v, text, r.ps.log \o <<"parsed", "emitted">>, "")

\* Compiler::assemble after parser.parse().
assemble_parsed(r) ==
    IF r.ps.fatal = "panic"
    THEN Assembled("panicked", <<>>, <<>>, r.ps.log, r.ps.err)
    ELSE IF r.ps.fatal = "error"
    THEN Assembled("failed", <<>>, <<>>, r.ps.log, r.ps.err)
    ELSE assemble_program(r, Compiler_program(r.v))

\* Compiler::assemble
Compiler_assemble == assemble_parsed(Parser_parse(Parser_new))

\* Compiler::compile up to the text: the file is read and assembled.
Assemble ==
    /\ estatus = "new"
    /\ \E result \in {Compiler_assemble} :
          /\ estatus' = result.status
          /\ ez_program' = result.program
          /\ assembly' = result.text
          /\ log' = result.log
          /\ ez_error' = result.error
    /\ UNCHANGED <<source_code, machine_vars, parser_vars, stack_vars,
                   lexer_vars, driver_vars>>

\* Compiler::compile when read_to_string fails.
CannotOpen ==
    /\ estatus = "new"
    /\ estatus' = "failed"
    /\ ez_error' = "Cannot open"
    /\ UNCHANGED <<source_code, ez_program, assembly, log, machine_vars,
                   parser_vars, stack_vars, lexer_vars, driver_vars>>

\* The rest of Compiler::compile: the text is written, nasm and ld are run;
\* a command that cannot be started is a panic, one that fails is an Err.
build(nasm, ld) ==
    IF nasm = "not started"
    THEN [status |-> "panicked", invoked |-> <<Ran("nasm", nasm)>>,
          error |-> "called Result::unwrap() on an Err value"]
    ELSE IF nasm = "failed"
    THEN [status |-> "failed", invoked |-> <<Ran("nasm", nasm)>>,
          error |-> "Assemble error"]
    ELSE IF ld = "not started"
    THEN [status |-> "panicked", invoked |-> <<Ran("nasm", nasm), Ran("ld", ld)>>,
          error |-> "called Result::unwrap() on an Err value"]
    ELSE IF ld = "failed"
    THEN [status |-> "failed", invoked |-> <<Ran("nasm", nasm), Ran("ld", ld)>>,
          error |-> "Link error"]
    ELSE [status |-> "built", invoked |-> <<Ran("nasm", nasm), Ran("ld", ld)>>,
          error |-> ""]

Build ==
    /\ estatus = "assembled"
    /\ \E nasm \in Outcomes, ld \in Outcomes :
          /\ estatus' = build(nasm, ld).status
          /\ invoked' = build(nasm, ld).invoked
          /\ ez_error' = build(nasm, ld).error
    /\ UNCHANGED <<source_code, ez_program, assembly, log, driver, machine_vars,
                   parser_vars, stack_vars, lexer_vars>>

(***************************************************************************)
(* The source files the single-file compiler is run on.                    *)
(***************************************************************************)
\* The operators of an expression of a source file.
MaxEzOps == 2

OperatorBytes == {"+", "-", "*", "/", "&", "|", "^"}

\* The operands of the expressions, in their order.
Operands == <<<<"1", "2">>, <<"6">>, <<"3">>>>

\* The expression that puts each operator before its two operands.
Prefixed(ops) ==
    ConcatAll([i \in 1..Len(ops) |-> <<ops[i], " ">> \o Operands[i] \o <<" ">>])
        \o Operands[Len(ops) + 1]

\* main:(){return e;}
MainReturns(e) ==
    <<"m", "a", "i", "n", ":", "(", ")", "{", "r", "e", "t", "u", "r", "n", " ">> \o e \o <<";", "}">>

\* empty and ill-formed files, arguments, calls, assignments, a string
EzSamples ==
    {<<>>,
     <<"f", ":", "(", ")", "{", "r", "e", "t", "u", "r", "n", " ", "0", ";", "}">>,
     <<"f", ":", "(", "a", ",", "b", ")", "{", "r", "e", "t", "u", "r", "n", " ", "+", " ", "a", " ", "b", ";", "}", "m", "a", "i", "n", ":", "(", ")", "{", "x", "=", "f", "(", "1", ",", "2", ")", ";", "r", "e", "t", "u", "r", "n", " ", "x", ";", "}">>,
     <<"m", "a", "i", "n", ":", "(", ")", "{", "w", "r", "i", "t", "e", "(", "1", ",", "\"", "a", "\"", ",", "1", ")", ";", "r", "e", "t", "u", "r", "n", " ", "0", ";", "}">>,
     <<"m", "a", "i", "n", "(", ")", "{", "}">>,
     <<"1">>,
     <<"m", "a", "i", "n", ":", "(", ")", "{", "r", "e", "t", "u", "r", "n", "}">>,
     <<"m", "a", "i", "n", ":", "(", ")", "{", "r", "e", "t", "u", "r", "n", " ", "%", " ", "1", " ", "2", ";", "}">>,
     <<"m", "a", "i", "n", ":", "(", ")", "{", "r", "e", "t", "u", "r", "n", " ", "-", "1", ";", "}">>,
     <<"m", "a", "i", "n", ":", "(", ")", "{", "r", "e", "t", "u", "r", "n", " ", "$", ";", "}">>,
     <<"m", "a", "i", "n", ":", "(", ")", "{", "f", "(", ")", ";", "}">>,
     <<"m", "a", "i", "n", ":", "(", ")", "{", "r", "e", "t", "u", "r", "n", " ", "9", "9", "9", ";", "}">>,
     <<"m", "a", "i", "n", ":", "(", "1", ")", "{", "}">>,
     <<"m", "a", "i", "n", ":", "(", "a", " ", "b", ")", "{", "}">>,
     <<"m", "a", "i", "n", ":", "{", "}">>,
     <<"m", "a", "i", "n", ":", "(", ")", "{", "r", "e", "t", "u", "r", "n", " ", "x", ";", "}">>,
     <<"m", "a", "i", "n", ":", "(", ")", " ", "{", "\n", " ", "r", "e", "t", "u", "r", "n", " ", "/", " ", "6", " ", "3", ";", "\n", "}", "\n">>,
     <<"m", "a", "i", "n", ":", "(", ")", "{", "x", " ", "=", " ", "6", ";", " ", "x", " ", "=", " ", "/", " ", "x", " ", "3", ";", " ", "r", "e", "t", "u", "r", "n", " ", "x", ";", "}">>,
     <<"m", "a", "i", "n", ":", "(", ")", "{", "r", "e", "t", "u", "r", "n", " ", "f", "(", "1", ",", "2", ",", "3", ",", "4", ",", "5", ")", ";", "}">>,
     <<"m", "a", "i", "n", ":", "(", ")", "{", "r", "e", "t", "u", "r", "n", " ", "\"", "a">>,
     <<"m", "a", "i", "n", ":", "(", ")", "{", "r", "e", "t", "u", "r", "n", " ", "1", "}">>,
     <<"m", "a", "i", "n", ":", "(", ")", "{", "a", "s", "m", ";", "}">>,
     <<"m", "a", "i", "n", ":", "(", "a", ",", ")", "{", "}">>}

EzSources(n) ==
    {MainReturns(Prefixed(ops)) : ops \in UNION {[1..k -> OperatorBytes] : k \in 0..n}}
        \cup EzSamples

\* Compiler::new on one of the files
InitEz ==
    /\ MachineIdle
    /\ locals = LocalStack_new
    /\ ParserIdle
    /\ StackIdle
    /\ LexerIdle
    /\ DriverIdle
    /\ source_code \in EzSources(MaxEzOps)
    /\ ez_program = <<>>
    /\ assembly = <<>>
    /\ log = <<>>
    /\ ez_error = ""
    /\ estatus = "new"

NextEz == Assemble \/ CannotOpen \/ Build

SpecEz == InitEz /\ [][NextEz]_vars

(***************************************************************************)
(* The stages of a compilation run, one after the other.                   *)
(***************************************************************************)
\* The stage an entry of the log belongs to.
Stage(event) ==
    CASE event = "lexed" -> 1
      [] event = "consumed" -> 2
      [] event = "parsed" -> 3
      [] event = "emitted" -> 4

\* C17: in every compilation run the stages never interleave: the lexer has
\* produced its last token before the parser consumes its first token, and
\* the whole Program is built before the generator emits its first byte.
C17_StagesNeverInterleave ==
    \A i \in 1..Len(log) : \A j \in 1..Len(log) :
        i < j => Stage(log[i]) <= Stage(log[j])

(***************************************************************************)
(* Division.                                                               *)
(***************************************************************************)
RECURSIVE HasDivision(_)
\* An expression of the single-file compiler holds a division operator.
HasDivision(e) ==
    CASE e.kind = "BinaryOperation" ->
            \/ e.operator = "Division"
            \/ HasDivision(e.left)
            \/ HasDivision(e.right)
      [] e.kind = "CallStatement" ->
            \E i \in 1..Len(e.arguments) : HasDivision(e.arguments[i])
      [] e.kind = "AssignStatement" -> HasDivision(e.expression)
      [] e.kind = "ReturnStatement" -> HasDivision(e.return_value)
      [] OTHER -> FALSE

\* A statement of the parsed program holds a division operator.
ProgramDivides ==
    /\ ez_program # <<>>
    /\ \E f \in 1..Len(ez_program.functions) :
          \E k \in 1..Len(ez_program.functions[f].statements) :
              HasDivision(ez_program.functions[f].statements[k])

\* C18: generating code for an expression that contains a division operator
\* aborts generation with an error: no instruction is emitted for the
\* division and no assembly output is produced for that program.
C18_DivisionAbortsGeneration ==
    ProgramDivides =>
        /\ estatus \in {"panicked", "failed"}
        /\ assembly = <<>>
        /\ invoked = <<>>

(***************************************************************************)
(* Identifiers, read off the bytes of the file.                            *)
(***************************************************************************)
\* The bytes of an identifier.
IdentifierBytes == LowerCase \cup UpperCase \cup Digits \cup {"_"}

\* The longest run of identifier bytes at the start of the file.
LeadingName == SubSeq(data, 1, RunLength(1, IdentifierBytes))

\* C21: when the byte at the cursor at the start of a token is an ASCII
\* letter, a-z or A-Z, or _, next() returns an identifier or keyword token
\* whose text is the maximal run of alphanumeric or _ bytes that starts
\* there, and never an unknown-token error.
C21_LetterStartsIdentifier ==
    (data[1] \in LowerCase \cup UpperCase \cup {"_"} /\ FirstCallEnded) =>
        /\ Len(tokens) >= 1
        /\ tokens[1].token_type = Keyword(LeadingName)
        /\ tokens[1].token_type = "Identifier" => tokens[1].text = LeadingName

(***************************************************************************)
(* Declarations and assignments.                                           *)
(***************************************************************************)
RECURSIVE DeclaredAfter(_, _, _)
\* The names a function has declared after the first i of its statements,
\* in the order of their declaration, the arguments first.
DeclaredAfter(args, stmts, i) ==
    IF i = 0 THEN args
    ELSE IF stmts[i].var
    THEN Append(DeclaredAfter(args, stmts, i - 1), stmts[i].name)
    ELSE DeclaredAfter(args, stmts, i - 1)

IsDeclared(names, name) == \E k \in 1..Len(names) : names[k] = name

\* The statements that declare a declared name or assign an undeclared one.
Misdeclared(args, stmts) ==
    {i \in 1..Len(stmts) :
        stmts[i].var = IsDeclared(DeclaredAfter(args, stmts, i - 1), stmts[i].name)}

FirstOf(S) == CHOOSE i \in S : \A j \in S : i <= j

\* The 0-based index of a name among the declared ones.
DeclaredIndex(names, name) == (CHOOSE k \in 1..Len(names) : names[k] = name) - 1

\* next_function has ended on the function of the file.
FunctionEnded == pstatus = "panicked" \/ Len(functions) >= 1

\* C22: var x = e; is a fatal error when x already names an argument or an
\* earlier var of the same function, and otherwise appends exactly one new
\* local for x; x = e; is a fatal error when x is not declared in the
\* function, and otherwise adds no local and assigns to the index of x.
C22_DeclareAndAssign ==
    \A args \in DeclaringArgs : \A stmts \in SeqsUpTo(StatementChoices, MaxStatements) :
        (tokens = DeclaringSource(args, stmts) /\ FunctionEnded) =>
            IF Misdeclared(args, stmts) # {}
            THEN /\ pstatus = "panicked"
                 /\ functions = <<>>
                 /\ message = IF stmts[FirstOf(Misdeclared(args, stmts))].var
                              THEN "Duplicated variable declaration."
                              ELSE "Undeclared variable."
            ELSE /\ pstatus # "panicked"
                 /\ Len(functions[1].locals) = Len(DeclaredAfter(args, stmts, Len(stmts)))
                 /\ \A k \in 1..Len(functions[1].locals) :
                       functions[1].locals[k].label
                           = DeclaredAfter(args, stmts, Len(stmts))[k]
                 /\ Len(functions[1].body.statements) = Len(stmts) + 1
                 /\ \A i \in 1..Len(stmts) :
                       functions[1].body.statements[i]
                           = Assign(DeclaredIndex(DeclaredAfter(args, stmts, Len(stmts)),
                                                  stmts[i].name),
                                    NumberLiteral(0))

\* fn main:(a){ var c = 0; a = 0; return 0; } has been parsed: c is the
\* second local, and a is assigned at its index.
C22_Witness ==
    /\ tokens = DeclaringSource(<<"a">>, <<[var |-> TRUE, name |-> "c"],
                                           [var |-> FALSE, name |-> "a"]>>)
    /\ Len(functions) = 1
    /\ Len(functions[1].locals) = 2
    /\ functions[1].body.statements[1] = Assign(1, NumberLiteral(0))
    /\ functions[1].body.statements[2] = Assign(0, NumberLiteral(0))

(***************************************************************************)
(* The text of a function: one return label, one epilogue.                 *)
(***************************************************************************)
\* The lines of the text that are global labels, _start and the functions.
GlobalLabels == {i \in 1..Len(code) : code[i].op = "label" /\ ~code[i].local}

\* The line of the label of the k-th function of the program.
FirstLine(k) ==
    CHOOSE i \in GlobalLabels : Cardinality({j \in GlobalLabels : j <= i}) = k + 1

\* The last line of the text of the k-th function.
LastLine(k) == IF k = Len(program) THEN Len(code) ELSE FirstLine(k + 1) - 1

LinesOf(k) == FirstLine(k)..LastLine(k)

\* The Return statements of the body of a function.
Returns_of(function) ==
    {i \in 1..Len(function.body.statements) :
        function.body.statements[i].kind = "Return"}

\* The text of a program has been generated.
Generated == pstatus = "generated" /\ ~Panicked(code)

\* C23: the text of every function holds exactly one return label and
\* exactly one epilogue, mov rsp, rbp; pop rbp; ret, placed after all the
\* body statements, and every Return statement of the function emits a jump
\* to the return label of that function and to no other label.
C23_OneReturnLabelOneEpilogue ==
    Generated =>
        /\ Cardinality(GlobalLabels) = Len(program) + 1
        /\ \A k \in 1..Len(program) :
              /\ code[FirstLine(k)] = ILabel(program[k].name)
              /\ {i \in LinesOf(k) : code[i].op = "label" /\ code[i].local}
                    = {LastLine(k) - 3}
              /\ code[LastLine(k) - 3] = IReturnLabel(program[k].name)
              /\ code[LastLine(k) - 2] = IMovReg(RSP, RBP)
              /\ code[LastLine(k) - 1] = IPop(RBP)
              /\ code[LastLine(k)] = IRet
              /\ {i \in LinesOf(k) : code[i].op = "ret"} = {LastLine(k)}
              /\ {i \in LinesOf(k) : code[i] = IPop(RBP)} = {LastLine(k) - 1}
              /\ \A i \in LinesOf(k) :
                    code[i].op = "jmp" => code[i] = IJmpReturn(program[k].name)
              /\ Cardinality({i \in LinesOf(k) : code[i].op = "jmp"})
                    = Cardinality(Returns_of(program[k]))

\* The text of fn f1:(){ return 1; return 2; } fn main:(){ return @f1(); }
\* has been generated: f1 jumps twice to its label, main once to its own.
C23_Witness ==
    /\ Generated
    /\ Len(program) = 2
    /\ program[1].name = "f1"
    /\ Cardinality(Returns_of(program[1])) = 2
    /\ Cardinality({i \in LinesOf(1) : code[i] = IJmpReturn("f1")}) = 2
    /\ Cardinality({i \in LinesOf(2) : code[i] = IJmpReturn("main")}) = 1

(***************************************************************************)
(* The order and the registers of the two operands of a Binary expression. *)
(***************************************************************************)
\* The text of an expression with the locals of the tree.
TextOf(e, register, alt) == write_expression(e, register, alt, locals, <<>>)

\* The line that ends the text of a Binary expression.
OperatorLine(e, register, alt) == <<IAlu(get_instruction(e.operator), register, alt)>>

\* The left operand into the primary register, then the right operand into
\* the alternate one.
LeftThenRight(e, register, alt) ==
    TextOf(e.left, register, alt) \o TextOf(e.right, alt, register)
        \o OperatorLine(e, register, alt)

\* The right operand into the alternate register, then the left operand into
\* the primary one.
RightThenLeft(e, register, alt) ==
    TextOf(e.right, alt, register) \o TextOf(e.left, register, alt)
        \o OperatorLine(e, register, alt)

\* The left operand into the alternate register, then the right operand into
\* the primary one.
LeftIntoAlternate(e, register, alt) ==
    TextOf(e.left, alt, register) \o TextOf(e.right, register, alt)
        \o OperatorLine(e, register, alt)

\* The Binary nodes of the tree, the tree included.
BinaryNodes == {e \in Subtrees(expr) : e.kind = "Binary"}

\* The two ways the generator is handed a pair of registers.
RegisterPairs == {<<RCX, RDX>>, <<RDX, RCX>>}

CallNextToken ==
    /\ pstatus = "parsing"
    /\ position' = next_token(Self).position
    /\ current_token' = next_token(Self).current_token
    /\ lookahead_token' = next_token(Self).lookahead_token
    /\ UNCHANGED <<tokens, functions, pstatus, message, precedence, machine_vars,
                   stack_vars, lexer_vars, driver_vars, ez_vars>>

SpecTokens == InitParse /\ [][CallNextToken]_vars

\* C25: after generate_tokens and any number of next_token calls the
\* lookahead is tokens[position], None when position is the number of
\* tokens, and once position >= 1 the current token is tokens[position - 1];
\* a next_token call at the end of the vector returns None and changes
\* neither slot nor the position.
C25_WindowIsAdjacent ==
    pstatus = "parsing" =>
        /\ position <= Len(tokens)
        /\ lookahead_token = IF position = Len(tokens) THEN NoToken
                             ELSE tokens[position + 1]
        /\ position >= 1 => current_token = tokens[position]
        /\ position = Len(tokens) =>
              /\ next_token_value(Self) = NoToken
              /\ next_token(Self) = Self

\* next_token has been called up to the end of a file of several tokens:
\* the current token is the last one and there is no lookahead.
C25_Witness ==
    /\ pstatus = "parsing"
    /\ Len(tokens) > 2
    /\ position = Len(tokens)
    /\ current_token = tokens[Len(tokens)]
    /\ lookahead_token = NoToken

(***************************************************************************)
(* C26: what a fatal error of the lexer says about where it happened.      *)
(***************************************************************************)
\* The panics of lexer.rs whose format string starts with the file name, the
\* line and the column: Unkown token, the two unclosed literals and the four
\* invalid digits.
PositionedPanics ==
    {"Unkown token", "Expected closing character sign", "Expected closing string sign"}
        \cup {InvalidNumber(base) : base \in {2, 8, 10, 16}}

\* the message of the panic starts with file:line:column
CarriesPosition(text) == text \in PositionedPanics

\* C26: every fatal error raised by the lexer carries the file name and the
\* line and column of the offending input. Refuted by read_number_like, whose
\* panic on an unknown base prefix (a file such as 9#1) is the bare text
\* Unkown numerical base.
C26_FatalErrorsCarryPosition == lstatus = "panicked" => CarriesPosition(message)

(***************************************************************************)
(* C27: the loops of the parser. Every turn of a loop takes a token, ends  *)
(* the loop or panics, and position never passes the end of tokens.        *)
(***************************************************************************)
\* One turn of the loop of next_program.
ProgramTurn == NextFunction \/ UnexpectedToken \/ ReturnProgram

\* The parser at any token of the source, after the functions it has
\* already pushed: next_program turn by turn, and next_token call by call to
\* reach the tokens inside a function.
NextTurns == ProgramTurn \/ CallNextToken

\* next_program keeps taking turns while it is parsing: weak fairness of
\* ProgramTurn, whose steps are possible exactly when pstatus is parsing.
ProgramTurnsFair == []<>(pstatus # "parsing") \/ []<><<ProgramTurn>>_vars

SpecTurns == InitParse /\ [][NextTurns]_vars /\ ProgramTurnsFair

\* The locals a turn of a loop can find: none, a, a and c.
TurnLocals ==
    {LocalStack_new,
     LocalStack_insert_table(LocalStack_new, "a", 8),
     LocalStack_insert_table(LocalStack_insert_table(LocalStack_new, "a", 8), "c", 8)}

\* The operator stack a turn of next_expression can find: empty, an open
\* parenthesis, an operator.
TurnStacks == {<<>>, <<Word("LeftPar")>>, <<Token("BinaryOperation", "Add", 0)>>}

\* next_expression at the start of a turn of its loop
Scanning(p, stack) ==
    [p |-> p, queue |-> <<>>, stack |-> stack, calls |-> <<>>, end |-> FALSE]

\* the turn took a token, or ended the loop (None, or end = true; break),
\* or panicked
Advanced(p, after, left) ==
    \/ ~Ok(after)
    \/ left
    \/ (after.position > p.position /\ after.position <= Len(tokens))

StatementAdvances(p, r) == Advanced(p, r.p, ~r.some)

ScanAdvances(p, s) == Advanced(p, s.p, s.end)

\* A turn of the loops of next_scope, next_call_args, next_args and
\* next_expression, with the parser at p.
TurnsAdvance(p) ==
    /\ \A ls \in TurnLocals :
         /\ StatementAdvances(p, next_statement(p, ls))
         /\ StatementAdvances(p, next_call_arg(p, ls))
         /\ p.lookahead_token # NoToken =>
              \A stack \in TurnStacks, call_arg \in BOOLEAN :
                  ScanAdvances(p, scan_turn(Scanning(p, stack), ls, call_arg))
    /\ StatementAdvances(p, next_arg(p))

\* every turn of an inner loop, wherever in tokens the parser is
InnerLoopsAdvance == pstatus = "parsing" => (position <= Len(tokens) /\ TurnsAdvance(Self))

\* a turn of next_program pushes a function and moves on, or ends parsing
ProgramLoopAdvances == ProgramTurn => (position' > position \/ pstatus' # "parsing")

\* C27: generate_program ends, with a Program or a panic, on every token
\* vector: each turn of the loops of next_program, next_args, next_scope,
\* next_call_args and next_expression takes at least one token, leaves the
\* loop or panics, position only grows and stays within tokens, and parsing
\* is over after finitely many turns.
C27_ParsingTerminates ==
    /\ []InnerLoopsAdvance
    /\ [][ProgramLoopAdvances]_vars
    /\ <>(pstatus # "parsing")

\* a Program was returned whose parsing took several turns of next_program,
\* of next_scope and of next_call_args
C27_Witness ==
    /\ pstatus = "returned"
    /\ position = Len(tokens)
    /\ Len(program) >= 2
    /\ \E k \in 1..Len(program) : Len(program[k].body.statements) >= 2

(***************************************************************************)
(* C28: the indices in the Program the parser returns, and the aborts of   *)
(* the generator that an index out of range would cause.                   *)
(***************************************************************************)
RECURSIVE ExpressionIndexed(_, _, _)
\* every Local of e is a local of ls, every Call of e a function of fns with
\* as many arguments as that function declares
ExpressionIndexed(e, ls, fns) ==
    CASE e.kind = "Local" -> LocalStack_has(ls, e.index)
      [] e.kind = "Binary" ->
            ExpressionIndexed(e.left, ls, fns) /\ ExpressionIndexed(e.right, ls, fns)
      [] e.kind = "Call" ->
            /\ e.index >= 0
            /\ e.index < Len(fns)
            /\ Len(e.args) = Len(fns[e.index + 1].arguments)
            /\ \A k \in 1..Len(e.args) : ExpressionIndexed(e.args[k], ls, fns)
      [] OTHER -> TRUE

StatementIndexed(statement, ls, fns) ==
    /\ statement.kind = "Assign" => LocalStack_has(ls, statement.local)
    /\ ExpressionIndexed(statement.expression, ls, fns)

FunctionIndexed(function, fns) ==
    /\ \A k \in 1..Len(function.arguments) :
            LocalStack_has(function.locals, function.arguments[k])
    /\ \A k \in 1..Len(function.body.statements) :
            StatementIndexed(function.body.statements[k], function.locals, fns)

ProgramIndexed(fns) == \A k \in 1..Len(fns) : FunctionIndexed(fns[k], fns)

\* C28: in every Program the parser returns every Local(i) and Assign(i, _)
\* has i below the number of locals of its function, every argument index is
\* a local, every Call(j, args) has j below the number of functions and as
\* many args as function j declares; and the generator run on it reaches none
\* of its aborts Unreachable, No function found, Argument mismath.
C28_ProgramIsWellIndexed ==
    /\ pstatus \in {"returned", "generated"} => ProgramIndexed(program)
    /\ pstatus = "generated" => ~Panicked(code)

\* code was generated for a Program with an assignment to a local and a call
\* that passes a sum of locals to a function that declares an argument
C28_Witness ==
    /\ Generated
    /\ \E k \in 1..Len(program) :
         \E i \in 1..Len(program[k].body.statements) :
            LET e == program[k].body.statements[i].expression
            IN  /\ e.kind = "Call"
                /\ Len(e.args) >= 1
                /\ Len(program[e.index + 1].arguments) = Len(e.args)
                /\ e.args[1].kind = "Binary"
                /\ e.args[1].left.kind = "Local"
                /\ \E j \in 1..Len(program[k].body.statements) :
                        program[k].body.statements[j].kind = "Assign"

(***************************************************************************)
(* C29: the stack slots of the locals of a function, as displacements from *)
(* the frame pointer, and the lines of its text that store to them.        *)
(***************************************************************************)
\* the bytes of the slot of a local: frame pointer - (offset + size) up to,
\* not including, frame pointer - offset
Slot(local) == (0 - (local.offset + local.size))..(0 - local.offset - 1)

\* the number of bytes a mov of this width writes
WidthBytes(width) ==
    CASE width = "byte" -> 1
      [] width = "word" -> 2
      [] width = "dword" -> 4
      [] OTHER -> 8

\* the bytes a store line writes, as displacements from its base
Written(line) == line.disp..(line.disp + WidthBytes(line.width) - 1)

\* sub rsp, stack_size: the amount the prologue of the k-th function reserves
Reserved(k) == code[FirstLine(k) + 3].imm

\* the lines of the text of the k-th function that store below or above the
\* frame pointer
FrameStores(k) == {i \in LinesOf(k) : code[i].op = "store" /\ code[i].base = RBP}

SlotsApart(ls) ==
    \A i, j \in 1..Len(ls) : i # j => Slot(ls[i]) \cap Slot(ls[j]) = {}

\* C29: in every function the parser produces the slots of the locals are
\* pairwise disjoint and lie inside the region the prologue reserves,
\* offset + size <= reserved amount; every store of the function writes
\* exactly the slot of one local, so neither another local nor the saved
\* frame pointer or the return address at the frame pointer and above.
C29_SlotsDisjointAndReserved ==
    Generated =>
        \A k \in 1..Len(program) :
            /\ code[FirstLine(k) + 3] = ISubImm(RSP, stack_size(program[k].locals))
            /\ SlotsApart(program[k].locals)
            /\ \A i \in 1..Len(program[k].locals) :
                  /\ program[k].locals[i].offset + program[k].locals[i].size <= Reserved(k)
                  /\ Slot(program[k].locals[i]) \subseteq (0 - Reserved(k))..(0 - 1)
            /\ \A i \in FrameStores(k) :
                  \E j \in 1..Len(program[k].locals) :
                      Written(code[i]) = Slot(program[k].locals[j])

\* text was generated for a function with an argument and two variables,
\* each of them stored to
C29_Witness ==
    /\ Generated
    /\ \E k \in 1..Len(program) :
          /\ Len(program[k].locals) >= 3
          /\ Len(program[k].arguments) >= 1
          /\ Cardinality({code[i].disp : i \in FrameStores(k)}) >= 3

(***************************************************************************)
(* C30: what a function leaves of the stack when it returns.               *)
(***************************************************************************)
\* ret is the instruction about to run
Returning == mstatus = "running" /\ pc <= Len(code) /\ code[pc].op = "ret"

\* The machine after the ret, against the machine as the call left it: the
\* stack pointer is its value at entry plus 8, the frame pointer is the
\* caller's, control is at the return address the call pushed, and the
\* memory from the return address up, which holds the caller's locals, is as
\* it was.
Restored(entered) ==
    /\ regs'[RSP] = entered.rsp + 8
    /\ regs'[RBP] = entered.rbp
    /\ pc' = entered.mem[entered.rsp]
    /\ \A a \in Addrs : a >= entered.rsp => mem'[a] = entered.mem[a]

ReturnRestores == Returning => (frames # <<>> /\ Restored(frames[Len(frames)]))

\* C30: every generated function, by whichever Return statement or by
\* falling through the end of its body, returns to its caller with the frame
\* pointer restored to the caller's value and the stack pointer at its value
\* at entry plus 8, although the arguments pushed for the calls of its body
\* are never popped; and when a call has returned the caller's frame pointer
\* and locals are unchanged.
C30_ReturnRestoresFrame == [][ReturnRestores]_vars

\* f has returned to main, which has a local, and the argument main pushed
\* for the call is still on the stack, below the region main reserved
C30_Witness ==
    /\ mstatus = "running"
    /\ pc > 1
    /\ code[pc - 1] = ICall("f")
    /\ Len(frames) = 1
    /\ Len(program) = 2
    /\ Len(program[2].locals) = 1
    /\ regs[RBP] = frames[1].rsp - 8
    /\ regs[RSP] < regs[RBP] - stack_size(program[2].locals)

====
